---------------------------- MODULE Spec2Model ----------------------------
(***************************************************************************)
(* graphql_compiler/compiler/cypher_query.py: convert_to_cypher_query,     *)
(* the assembly of CypherStep objects from a stream of IR blocks           *)
(* (specification Spec), and graphql_compiler/compiler/emit_sql.py:        *)
(* emit_code_from_ir, the emission of a SQL statement from a query tree    *)
(* (specification EmitSpec), with the evaluation of the recursive CTE it   *)
(* builds (specification RecursionSpec). They share no state: each         *)
(* specification leaves the variables of the others where they start.      *)
(*                                                                         *)
(* The stream is read block by block: the loop of convert_to_cypher_query  *)
(* looks at block i only in iteration i, and at the blocks after           *)
(* GlobalOperationsStart only after the loop, so remaining_ir_blocks holds *)
(* the blocks read so far and every iteration draws the next block.        *)
(*                                                                         *)
(* Python's None is modelled per type: "None" for a location and for the   *)
(* exception slot, NoBlock for an optional block, NoBlocks for the step    *)
(* buffer (a buffer the code creates is never empty), NoIndex for an       *)
(* index, NoQuery for the result.                                          *)
(***************************************************************************)
EXTENDS Integers, Sequences, FiniteSets, TLC

VARIABLES
    folds,                    \* extract_folds_from_ir_blocks(ir_blocks)[0]
    remaining_ir_blocks,      \* extract_folds_from_ir_blocks(ir_blocks)[1], as read so far
    steps,
    current_step_blocks,
    linked_location,
    next_linked_location,
    global_operations_index,
    pc,                       \* "loop" | "global_operations" | "returned" | "raised"
    raised,                   \* the exception that ended the call, or "None"
    result                    \* the CypherQuery returned, or NoQuery

vars == <<folds, remaining_ir_blocks, steps, current_step_blocks, linked_location,
          next_linked_location, global_operations_index, pc, raised, result>>

\* emit_sql.py: one call of emit_code_from_ir
VARIABLES
    sql_query_tree,           \* the tree as the tree builder made it (what emission never writes)
    compiler_metadata,        \* what the metadata provider answers
    nodes,                    \* the fields of each node that emission writes
    sql_blocks,               \* the selection and predicate objects: their table, their renames
    ctes,                     \* the query each CTE wraps, by the node it was made for
    call_stack,               \* the calls in progress, the running one last
    emit_raised,              \* the exception that ended the call, or "None"
    statement,                \* the statement returned, or NoStatement
    trace                     \* the operations carried out so far, in order

emit_vars == <<sql_query_tree, compiler_metadata, nodes, sql_blocks, ctes, call_stack,
               emit_raised, statement, trace>>

\* The emitter before any call.
EmitterIdle ==
    /\ sql_query_tree = << >>
    /\ compiler_metadata = << >>
    /\ nodes = << >>
    /\ sql_blocks = << >>
    /\ ctes = << >>
    /\ call_stack = << >>
    /\ emit_raised = "None"
    /\ statement = << >>
    /\ trace = << >>

\* emit_sql.py, lines 88-129: one evaluation of the recursive CTE that
\* _create_recursive_clause builds, by the database that runs the statement
VARIABLES
    recursive_table,          \* the rows of the traversed relation: their two edge columns
    node_table,               \* node.table: the base column of its rows
    distinct_parent_column_query,  \* the distinct values of the parent's link column
    block_depth,              \* node.block.depth
    block_direction,          \* node.block.direction
    recursive_cte,            \* the rows produced so far
    working_table,            \* the rows the last iteration produced
    iterations,               \* the applications of the recursive query that produced a row
    cte_pc                    \* "idle" | "anchor" | "recursive" | "done"

cte_vars == <<recursive_table, node_table, distinct_parent_column_query, block_depth,
              block_direction, recursive_cte, working_table, iterations, cte_pc>>

\* No recursive CTE is under evaluation.
CteIdle ==
    /\ recursive_table = {}
    /\ node_table = {}
    /\ distinct_parent_column_query = {}
    /\ block_depth = 0
    /\ block_direction = "out"
    /\ recursive_cte = {}
    /\ working_table = {}
    /\ iterations = 0
    /\ cte_pc = "idle"

---------------------------------------------------------------------------
(* Bounds of the model *)

\* blocks read by the loop, GlobalOperationsStart included: of any stream, and of a
\* stream that goes on without a discarded block and with step buffers that all
\* begin one of the shapes _make_cypher_step accepts
MaxBlocks == 5
MaxGrammaticalBlocks == 9
\* blocks after GlobalOperationsStart, when at most MaxBlocks blocks precede them
MaxTrailing == 2
\* blocks of one stream that enter no step buffer: Unfold, OutputSource, EndOptional, Backtrack
MaxInert == 1
\* blocks in one step buffer
MaxStepBlocks == 4

Locations == {"L1", "L2"}
\* the start class of the QueryRoot and the target class of a CoerceType
RootClass == {"Animal"}
TargetClass == {"Species"}
\* the predicate of a Filter in a step, and of the Filter of the global operations
StepPredicate == "P1"
GlobalPredicate == "P2"
\* the location of the fold scope, and the predicate of the Filter inside it
FoldLocation == "F1"
FoldPredicate == "P3"

---------------------------------------------------------------------------
(* Values *)

None == "None"
NoBlock == [type |-> "None"]
NoBlocks == << >>
NoIndex == -1
NoQuery == [type |-> "None"]

\* The IR blocks (compiler/blocks.py), with the attributes the assembler reads.
QueryRoot(start_class) == [type |-> "QueryRoot", start_class |-> start_class]
Traverse == [type |-> "Traverse"]
Recurse == [type |-> "Recurse"]
Backtrack(location) == [type |-> "Backtrack", location |-> location]
MarkLocation(location) == [type |-> "MarkLocation", location |-> location]
CoerceType(target_class) == [type |-> "CoerceType", target_class |-> target_class]
Filter(predicate) == [type |-> "Filter", predicate |-> predicate]
Fold == [type |-> "Fold"]
Unfold == [type |-> "Unfold"]
OutputSource == [type |-> "OutputSource"]
EndOptional == [type |-> "EndOptional"]
GlobalOperationsStart == [type |-> "GlobalOperationsStart"]
ConstructResult == [type |-> "ConstructResult"]

step_block_types == {"Traverse", "Recurse"}
linked_location_source_types == {"MarkLocation", "Backtrack"}
discarded_block_types == {"Unfold", "OutputSource", "EndOptional"}

\* The blocks a stream is drawn from.
Blocks ==
    {QueryRoot(RootClass), Traverse, Recurse, CoerceType(TargetClass), Filter(StepPredicate)}
    \cup {Backtrack(l) : l \in Locations} \cup {MarkLocation(l) : l \in Locations}
    \cup {Fold, Unfold, OutputSource, EndOptional, GlobalOperationsStart, ConstructResult}

\* The blocks the section after GlobalOperationsStart is drawn from.
TrailingBlocks == {Filter(GlobalPredicate), ConstructResult, Fold}

SeqsUpTo(S, n) == UNION {[1..k -> S] : k \in 0..n}

\* The fold mappings the extractor hands over: one fold scope, with blocks of the
\* types a step is made of.
FoldMappings ==
    {[l \in {FoldLocation} |->
        <<Fold, Filter(FoldPredicate), MarkLocation(FoldLocation), Unfold>>]}

BlockTypes(blocks) == [i \in 1..Len(blocks) |-> blocks[i].type]

CountOf(blocks, types) == Cardinality({i \in 1..Len(blocks) : blocks[i].type \in types})

---------------------------------------------------------------------------
(* _make_cypher_step and its helpers *)

get_only_element_from_collection(collection) == CHOOSE x \in collection : TRUE

get_all_supertypes_of_exact_type(exact_type) == {exact_type}

\* Mutant: a linked step is bound to the location it is linked to.
CypherStep_bound_to_link(ll, step_block, step_types, where_block, as_block) ==
    [linked_location |-> ll, step_block |-> step_block, step_types |-> step_types,
     where_block |-> where_block,
     as_block |-> IF ll = None THEN as_block ELSE MarkLocation(ll)]

CypherStep(ll, step_block, step_types, where_block, as_block) ==
    [linked_location |-> ll, step_block |-> step_block, step_types |-> step_types,
     where_block |-> where_block, as_block |-> as_block]

Made(step) == [raised |-> None, step |-> step]
Failed(kind) == [raised |-> kind, step |-> NoBlock]

\* Mutant: the Filter of the first step is lost.
make_query_root_cypher_step_unfiltered(ll, blocks) ==
    LET types == BlockTypes(blocks) IN
    IF types = <<"QueryRoot", "Filter", "MarkLocation">>
    THEN Made(CypherStep(ll, blocks[1],
              get_all_supertypes_of_exact_type(
                  get_only_element_from_collection(blocks[1].start_class)),
              NoBlock, blocks[3]))
    ELSE IF types = <<"QueryRoot", "MarkLocation">>
    THEN Made(CypherStep(ll, blocks[1],
              get_all_supertypes_of_exact_type(
                  get_only_element_from_collection(blocks[1].start_class)),
              NoBlock, blocks[2]))
    ELSE Failed("AssertionError")

make_query_root_cypher_step(ll, blocks) ==
    LET types == BlockTypes(blocks) IN
    IF types = <<"QueryRoot", "Filter", "MarkLocation">>
    THEN Made(CypherStep(ll, blocks[1],
              get_all_supertypes_of_exact_type(
                  get_only_element_from_collection(blocks[1].start_class)),
              blocks[2], blocks[3]))
    ELSE IF types = <<"QueryRoot", "MarkLocation">>
    THEN Made(CypherStep(ll, blocks[1],
              get_all_supertypes_of_exact_type(
                  get_only_element_from_collection(blocks[1].start_class)),
              NoBlock, blocks[2]))
    ELSE Failed("AssertionError")

\* Mutant: only the first and the last of the blocks after the opening block are
\* looked at.
make_cypher_step_checking_ends(ll, blocks) ==
    IF blocks = NoBlocks
    THEN Failed("TypeError")
    ELSE IF blocks[1].type = "QueryRoot"
    THEN make_query_root_cypher_step(ll, blocks)
    ELSE LET remaining_blocks == Tail(blocks)
             types == BlockTypes(remaining_blocks) IN
         IF /\ Len(types) >= 2
            /\ types[1] = "CoerceType"
            /\ types[Len(types)] = "MarkLocation"
         THEN Made(CypherStep(ll, blocks[1],
                   get_all_supertypes_of_exact_type(
                       get_only_element_from_collection(remaining_blocks[1].target_class)),
                   IF Len(types) >= 3 /\ types[2] = "Filter"
                   THEN remaining_blocks[2] ELSE NoBlock,
                   remaining_blocks[Len(types)]))
         ELSE Failed("AssertionError")

make_cypher_step(ll, blocks) ==
    IF blocks = NoBlocks
    THEN Failed("TypeError")          \* None[0]
    ELSE IF blocks[1].type = "QueryRoot"
    THEN make_query_root_cypher_step(ll, blocks)
    ELSE LET remaining_blocks == Tail(blocks)
             types == BlockTypes(remaining_blocks) IN
         IF types = <<"CoerceType", "Filter", "MarkLocation">>
         THEN Made(CypherStep(ll, blocks[1],
                   get_all_supertypes_of_exact_type(
                       get_only_element_from_collection(remaining_blocks[1].target_class)),
                   remaining_blocks[2], remaining_blocks[3]))
         ELSE IF types = <<"CoerceType", "MarkLocation">>
         THEN Made(CypherStep(ll, blocks[1],
                   get_all_supertypes_of_exact_type(
                       get_only_element_from_collection(remaining_blocks[1].target_class)),
                   NoBlock, remaining_blocks[2]))
         ELSE Failed("AssertionError")

---------------------------------------------------------------------------
(* The loop of convert_to_cypher_query, as a function of the loop's state *)

LoopState ==
    [steps |-> steps, current_step_blocks |-> current_step_blocks,
     linked_location |-> linked_location, next_linked_location |-> next_linked_location,
     global_operations_index |-> global_operations_index, pc |-> pc, raised |-> raised]

InitialLoopState ==
    [steps |-> << >>, current_step_blocks |-> NoBlocks,
     linked_location |-> None, next_linked_location |-> None,
     global_operations_index |-> NoIndex, pc |-> "loop", raised |-> None]

Raise(st, kind) == [st EXCEPT !.pc = "raised", !.raised = kind]

\* Mutant: the last step is put in front of the list instead of at its end.
on_global_operations_start_prepending(st, block, index) ==
    LET made == make_cypher_step(st.linked_location, st.current_step_blocks) IN
    IF made.raised # None
    THEN Raise(st, made.raised)
    ELSE [st EXCEPT !.steps = <<made.step>> \o @,
                    !.current_step_blocks = NoBlocks,
                    !.global_operations_index = index,
                    !.pc = "global_operations"]

\* if isinstance(block, GlobalOperationsStart)
on_global_operations_start(st, block, index) ==
    LET made == make_cypher_step(st.linked_location, st.current_step_blocks) IN
    IF made.raised # None
    THEN Raise(st, made.raised)
    ELSE [st EXCEPT !.steps = Append(@, made.step),
                    !.current_step_blocks = NoBlocks,
                    !.global_operations_index = index,
                    !.pc = "global_operations"]

\* elif isinstance(block, QueryRoot)
on_query_root(st, block, index) ==
    IF st.current_step_blocks # NoBlocks
    THEN Raise(st, "AssertionError")
    ELSE [st EXCEPT !.current_step_blocks = <<block>>]

\* Mutant: the pending location is promoted before the finished step is made.
on_step_block_linking_early(st, block, index) ==
    LET made == make_cypher_step(st.next_linked_location, st.current_step_blocks) IN
    IF made.raised # None
    THEN Raise(st, made.raised)
    ELSE [st EXCEPT !.steps = Append(@, made.step),
                    !.linked_location = st.next_linked_location,
                    !.next_linked_location = None,
                    !.current_step_blocks = <<block>>]

\* Mutant: the pending location is dropped instead of handed to the step being opened.
on_step_block_unlinked(st, block, index) ==
    LET made == make_cypher_step(st.linked_location, st.current_step_blocks) IN
    IF made.raised # None
    THEN Raise(st, made.raised)
    ELSE [st EXCEPT !.steps = Append(@, made.step),
                    !.next_linked_location = None,
                    !.current_step_blocks = <<block>>]

\* elif isinstance(block, step_block_types)
on_step_block(st, block, index) ==
    LET made == make_cypher_step(st.linked_location, st.current_step_blocks) IN
    IF made.raised # None
    THEN Raise(st, made.raised)
    ELSE [st EXCEPT !.steps = Append(@, made.step),
                    !.linked_location = st.next_linked_location,
                    !.next_linked_location = None,
                    !.current_step_blocks = <<block>>]

\* Mutant: a location is recorded only while none is pending.
on_linked_location_source_keeping_first(st, block, index) ==
    LET located == IF st.next_linked_location = None
                   THEN [st EXCEPT !.next_linked_location = block.location]
                   ELSE st IN
    IF block.type = "MarkLocation"
    THEN IF st.current_step_blocks = NoBlocks
         THEN Raise(located, "AttributeError")
         ELSE [located EXCEPT !.current_step_blocks = Append(@, block)]
    ELSE located

\* elif isinstance(block, linked_location_source_types)
on_linked_location_source(st, block, index) ==
    LET located == [st EXCEPT !.next_linked_location = block.location] IN
    IF block.type = "MarkLocation"
    THEN IF st.current_step_blocks = NoBlocks
         THEN Raise(located, "AttributeError")      \* None.append
         ELSE [located EXCEPT !.current_step_blocks = Append(@, block)]
    ELSE located

\* Mutant: a discarded block clears the pending linked location.
on_discarded_clearing(st, block, index) == [st EXCEPT !.next_linked_location = None]

\* elif isinstance(block, discarded_block_types)
on_discarded(st, block, index) == st

\* elif isinstance(block, (Filter, CoerceType))
on_filter_or_coerce(st, block, index) ==
    IF st.current_step_blocks = NoBlocks
    THEN Raise(st, "AttributeError")                \* None.append
    ELSE [st EXCEPT !.current_step_blocks = Append(@, block)]

\* else
on_unexpected(st, block, index) == Raise(st, "AssertionError")

\* One iteration of the loop body on `block`, the block at position `index`.
loop_body(st, block, index) ==
    IF block.type = "GlobalOperationsStart" THEN on_global_operations_start(st, block, index)
    ELSE IF block.type = "QueryRoot" THEN on_query_root(st, block, index)
    ELSE IF block.type \in step_block_types THEN on_step_block(st, block, index)
    ELSE IF block.type \in linked_location_source_types
         THEN on_linked_location_source(st, block, index)
    ELSE IF block.type \in discarded_block_types THEN on_discarded(st, block, index)
    ELSE IF block.type \in {"Filter", "CoerceType"} THEN on_filter_or_coerce(st, block, index)
    ELSE on_unexpected(st, block, index)

\* if global_operations_index is None: raise
loop_exhausted(st) == Raise(st, "AssertionError")

\* The loop over a whole list of blocks, from the state `st` at position `index`.
RECURSIVE run_loop(_, _, _)
run_loop(st, blocks, index) ==
    IF st.pc # "loop" THEN st
    ELSE IF index >= Len(blocks) THEN st
    ELSE run_loop(loop_body(st, blocks[index + 1], index), blocks, index + 1)

---------------------------------------------------------------------------
(* The section after the loop *)

global_operations_blocks(blocks, index) == SubSeq(blocks, index + 2, Len(blocks))

\* Mutant: the query is handed back without the fold scopes.
CypherQuery_without_folds(the_steps, the_folds, global_where_block, output_block) ==
    [steps |-> the_steps, folds |-> << >>,
     global_where_block |-> global_where_block, output_block |-> output_block]

CypherQuery(the_steps, the_folds, global_where_block, output_block) ==
    [steps |-> the_steps, folds |-> the_folds,
     global_where_block |-> global_where_block, output_block |-> output_block]

\* Mutant: only the last of the blocks after GlobalOperationsStart is looked at.
global_operations_checking_last(the_steps, the_folds, blocks, index) ==
    LET global_blocks == global_operations_blocks(blocks, index)
        types == BlockTypes(global_blocks) IN
    IF types # << >> /\ types[Len(types)] = "ConstructResult"
    THEN [raised |-> None,
          query |-> CypherQuery(the_steps, the_folds, NoBlock, global_blocks[Len(types)])]
    ELSE [raised |-> "AssertionError", query |-> NoQuery]

\* Mutant: the global filter is the last Filter of the whole stream.
global_operations_last_filter(the_steps, the_folds, blocks, index) ==
    LET global_blocks == global_operations_blocks(blocks, index)
        types == BlockTypes(global_blocks)
        filters == SelectSeq(blocks, LAMBDA b : b.type = "Filter")
        last_filter == IF filters = << >> THEN NoBlock ELSE filters[Len(filters)] IN
    IF types = <<"Filter", "ConstructResult">>
    THEN [raised |-> None,
          query |-> CypherQuery(the_steps, the_folds, last_filter, global_blocks[2])]
    ELSE IF types = <<"ConstructResult">>
    THEN [raised |-> None,
          query |-> CypherQuery(the_steps, the_folds, last_filter, global_blocks[1])]
    ELSE [raised |-> "AssertionError", query |-> NoQuery]

\* The outcome of the section: the exception raised and the query returned.
global_operations(the_steps, the_folds, blocks, index) ==
    LET global_blocks == global_operations_blocks(blocks, index)
        types == BlockTypes(global_blocks) IN
    IF types = <<"Filter", "ConstructResult">>
    THEN [raised |-> None,
          query |-> CypherQuery(the_steps, the_folds, global_blocks[1], global_blocks[2])]
    ELSE IF types = <<"ConstructResult">>
    THEN [raised |-> None,
          query |-> CypherQuery(the_steps, the_folds, NoBlock, global_blocks[1])]
    ELSE [raised |-> "AssertionError", query |-> NoQuery]

\* The whole call on a complete list of blocks.
convert_to_cypher_query(the_folds, blocks) ==
    LET st == run_loop(InitialLoopState, blocks, 0) IN
    IF st.pc = "raised"
    THEN [raised |-> st.raised, query |-> NoQuery]
    ELSE IF st.pc = "loop"
    THEN [raised |-> loop_exhausted(st).raised, query |-> NoQuery]
    ELSE global_operations(st.steps, the_folds, blocks, st.global_operations_index)

---------------------------------------------------------------------------
(* The state machine *)

Init ==
    /\ folds \in FoldMappings
    /\ remaining_ir_blocks = << >>
    /\ steps = << >>
    /\ current_step_blocks = NoBlocks
    /\ linked_location = None
    /\ next_linked_location = None
    /\ global_operations_index = NoIndex
    /\ pc = "loop"
    /\ raised = None
    /\ result = NoQuery
    /\ EmitterIdle
    /\ CteIdle

current_block_index == Len(remaining_ir_blocks)

inert_block_types == discarded_block_types \cup {"Backtrack"}

\* The block-type shapes of a step buffer that _make_cypher_step accepts.
StepShapes ==
    {<<"QueryRoot", "Filter", "MarkLocation">>, <<"QueryRoot", "MarkLocation">>}
    \cup {<<t, "CoerceType", "Filter", "MarkLocation">> : t \in step_block_types}
    \cup {<<t, "CoerceType", "MarkLocation">> : t \in step_block_types}

IsPrefix(a, b) == Len(a) <= Len(b) /\ SubSeq(b, 1, Len(a)) = a

\* Nothing raised so far, and the open step buffer can still grow into an accepted shape.
Grammatical(st) ==
    /\ st.pc # "raised"
    /\ {shape \in StepShapes : IsPrefix(BlockTypes(st.current_step_blocks), shape)} # {}

WithinBounds(block) ==
    /\ IF Len(remaining_ir_blocks) < MaxBlocks
       THEN TRUE
       ELSE /\ Len(remaining_ir_blocks) < MaxGrammaticalBlocks
            /\ block.type \notin discarded_block_types
            /\ Grammatical(loop_body(LoopState, block, current_block_index))
    /\ block.type \in inert_block_types
          => CountOf(remaining_ir_blocks, inert_block_types) < MaxInert
    /\ block.type \in {"MarkLocation", "Filter", "CoerceType"}
          => Len(current_step_blocks) < MaxStepBlocks

\* The loop reads `block` and runs its body on it.
Iterate(block) ==
    /\ pc = "loop"
    /\ WithinBounds(block)
    /\ LET st == loop_body(LoopState, block, current_block_index) IN
        /\ remaining_ir_blocks' = Append(remaining_ir_blocks, block)
        /\ steps' = st.steps
        /\ current_step_blocks' = st.current_step_blocks
        /\ linked_location' = st.linked_location
        /\ next_linked_location' = st.next_linked_location
        /\ global_operations_index' = st.global_operations_index
        /\ pc' = st.pc
        /\ raised' = st.raised
    /\ UNCHANGED <<folds, result>>
    /\ UNCHANGED emit_vars
    /\ UNCHANGED cte_vars

IterateGlobalOperationsStart ==
    \E block \in Blocks : block.type = "GlobalOperationsStart" /\ Iterate(block)

IterateQueryRoot ==
    \E block \in Blocks : block.type = "QueryRoot" /\ Iterate(block)

IterateStepBlock ==
    \E block \in Blocks : block.type \in step_block_types /\ Iterate(block)

IterateLinkedLocationSource ==
    \E block \in Blocks : block.type \in linked_location_source_types /\ Iterate(block)

IterateDiscarded ==
    \E block \in Blocks : block.type \in discarded_block_types /\ Iterate(block)

IterateFilterOrCoerce ==
    \E block \in Blocks : block.type \in {"Filter", "CoerceType"} /\ Iterate(block)

IterateUnexpected ==
    \E block \in Blocks : block.type \in {"Fold", "ConstructResult"} /\ Iterate(block)

\* The stream ends before any GlobalOperationsStart.
LoopExhausted ==
    /\ pc = "loop"
    /\ LET st == loop_exhausted(LoopState) IN
        /\ pc' = st.pc
        /\ raised' = st.raised
    /\ UNCHANGED <<folds, remaining_ir_blocks, steps, current_step_blocks, linked_location,
                   next_linked_location, global_operations_index, result>>
    /\ UNCHANGED emit_vars
    /\ UNCHANGED cte_vars

\* The sections after GlobalOperationsStart that are drawn: any, after a loop of
\* at most MaxBlocks blocks; after a longer one, the beginnings of the accepted two.
TrailingSections ==
    IF Len(remaining_ir_blocks) <= MaxBlocks
    THEN SeqsUpTo(TrailingBlocks, MaxTrailing)
    ELSE {<< >>, <<ConstructResult>>, <<Filter(GlobalPredicate)>>,
          <<Filter(GlobalPredicate), ConstructResult>>}

\* After the break: the blocks after GlobalOperationsStart, and the return.
GlobalOperations ==
    /\ pc = "global_operations"
    /\ \E trailing \in TrailingSections :
        LET blocks == remaining_ir_blocks \o trailing
            out == global_operations(steps, folds, blocks, global_operations_index) IN
        /\ remaining_ir_blocks' = blocks
        /\ raised' = out.raised
        /\ result' = out.query
        /\ pc' = IF out.raised = None THEN "returned" ELSE "raised"
    /\ UNCHANGED <<folds, steps, current_step_blocks, linked_location,
                   next_linked_location, global_operations_index>>
    /\ UNCHANGED emit_vars
    /\ UNCHANGED cte_vars

Next ==
    \/ IterateGlobalOperationsStart
    \/ IterateQueryRoot
    \/ IterateStepBlock
    \/ IterateLinkedLocationSource
    \/ IterateDiscarded
    \/ IterateFilterOrCoerce
    \/ IterateUnexpected
    \/ LoopExhausted
    \/ GlobalOperations

Spec == Init /\ [][Next]_<<vars, emit_vars, cte_vars>>

---------------------------------------------------------------------------
(* The stream, as the properties speak of it *)

Returned == pc = "returned"

HasGlobalOperationsStart(blocks) ==
    \E i \in 1..Len(blocks) : blocks[i].type = "GlobalOperationsStart"

\* Position of the first GlobalOperationsStart; past the end when there is none.
FirstGlobalOperationsStart(blocks) ==
    IF HasGlobalOperationsStart(blocks)
    THEN CHOOSE i \in 1..Len(blocks) :
            /\ blocks[i].type = "GlobalOperationsStart"
            /\ \A j \in 1..(i - 1) : blocks[j].type # "GlobalOperationsStart"
    ELSE Len(blocks) + 1

\* The blocks before the first GlobalOperationsStart, and those after it.
MainSection(blocks) == SubSeq(blocks, 1, FirstGlobalOperationsStart(blocks) - 1)
TrailingSection(blocks) == SubSeq(blocks, FirstGlobalOperationsStart(blocks) + 1, Len(blocks))

opening_block_types == {"QueryRoot", "Traverse", "Recurse"}

IsOpening(block) == block.type \in opening_block_types

\* Positions, in order, of the blocks of `blocks` whose type is in `types`.
PositionsOf(blocks, types) ==
    LET at == {i \in 1..Len(blocks) : blocks[i].type \in types} IN
    [k \in 1..Cardinality(at) |->
        CHOOSE i \in at : Cardinality({j \in at : j < i}) = k - 1]

OpeningPositions(blocks) == PositionsOf(blocks, opening_block_types)

---------------------------------------------------------------------------
(* C1: when the call returns, steps and the opening blocks (QueryRoot,     *)
(* Traverse, Recurse) before GlobalOperationsStart correspond one to one   *)
(* and in order: the i-th step's step_block is the i-th opening block, and *)
(* len(steps) is the number of QueryRoot, Traverse and Recurse blocks of   *)
(* the stream.                                                             *)
C1_StepsMirrorOpeningBlocks ==
    Returned =>
        LET main == MainSection(remaining_ir_blocks)
            openings == SelectSeq(main, IsOpening) IN
        /\ Len(result.steps) = Len(openings)
        /\ Len(result.steps) = CountOf(remaining_ir_blocks, opening_block_types)
        /\ \A i \in 1..Len(openings) : result.steps[i].step_block = openings[i]

C1_Witness ==
    /\ Returned
    /\ Len(result.steps) = 2
    /\ result.steps[1].step_block.type = "QueryRoot"
    /\ result.steps[2].step_block = Recurse

\* The stream has a GlobalOperationsStart, followed by one of the two accepted tails.
WellFormedTail(blocks) ==
    /\ HasGlobalOperationsStart(blocks)
    /\ BlockTypes(TrailingSection(blocks))
          \in {<<"ConstructResult">>, <<"Filter", "ConstructResult">>}

(* C2: a stream without GlobalOperationsStart, or whose blocks after the   *)
(* first GlobalOperationsStart are neither [ConstructResult] nor           *)
(* [Filter, ConstructResult], makes the call raise, and a call that raises *)
(* hands back no CypherQuery.                                              *)
C2_MalformedTailRaises ==
    /\ pc \in {"returned", "raised"} /\ ~WellFormedTail(remaining_ir_blocks)
          => pc = "raised" /\ raised # None
    /\ pc # "returned" => result = NoQuery
    /\ pc = "returned" => result # NoQuery /\ raised = None

C2_Witness ==
    /\ pc = "raised"
    /\ HasGlobalOperationsStart(remaining_ir_blocks)
    /\ BlockTypes(TrailingSection(remaining_ir_blocks)) = <<"ConstructResult", "Filter">>
    /\ result = NoQuery

(* C3: every stream that breaks the grammar is rejected with the one       *)
(* designated error, the AssertionError of the assembler's own checks,     *)
(* whatever the offending block and its position, a first block Traverse,  *)
(* Recurse, Filter, CoerceType, MarkLocation or GlobalOperationsStart      *)
(* included; a call never ends in another kind of failure.                 *)
C3_OnlyAssertionErrorRaised ==
    pc = "raised" => raised = "AssertionError"

\* The blocks strictly between the (i-1)-th and the i-th opening block.
BlocksBefore(blocks, i) ==
    LET at == OpeningPositions(blocks) IN SubSeq(blocks, at[i - 1] + 1, at[i] - 1)

\* No Backtrack follows the last MarkLocation among `between`.
NoBacktrackAfterMark(between) ==
    \A k \in 1..Len(between) :
        between[k].type = "Backtrack"
            => \E m \in (k + 1)..Len(between) : between[m].type = "MarkLocation"

\* The stream of the worked example: a root step and a filtered traversal.
C4_Example ==
    <<QueryRoot(RootClass), MarkLocation("L1"), Traverse, CoerceType(TargetClass),
      Filter(StepPredicate), MarkLocation("L2"), GlobalOperationsStart, ConstructResult>>

(* C4, as claimed: in a returned query a step opened by Traverse or        *)
(* Recurse has linked_location None when no Backtrack lies between the     *)
(* previous step's MarkLocation and the opening block.                     *)
C4_LinkedLocationNoneWithoutBacktrack ==
    Returned =>
        \A i \in 2..Len(result.steps) :
            NoBacktrackAfterMark(BlocksBefore(MainSection(remaining_ir_blocks), i))
                => result.steps[i].linked_location = None

(* C4, amended: such a step's linked_location is the location of the       *)
(* previous step's MarkLocation; the second step of [QueryRoot,            *)
(* MarkLocation(L1), Traverse, CoerceType, Filter, MarkLocation(L2),       *)
(* GlobalOperationsStart, ConstructResult] is linked to L1.                *)
C4_LinkedToPreviousStepWithoutBacktrack ==
    /\ Returned =>
          \A i \in 2..Len(result.steps) :
              NoBacktrackAfterMark(BlocksBefore(MainSection(remaining_ir_blocks), i))
                  => result.steps[i].linked_location
                         = result.steps[i - 1].as_block.location
    /\ Returned /\ remaining_ir_blocks = C4_Example
          => /\ Len(result.steps) = 2
             /\ result.steps[2].where_block = Filter(StepPredicate)
             /\ result.steps[2].step_types = TargetClass
             /\ result.steps[2].linked_location = "L1"

C4_Witness ==
    /\ Returned
    /\ remaining_ir_blocks = C4_Example
    /\ result.steps[2].linked_location = "L1"

\* The blocks of one type, in order.
OfType(blocks, type) == SelectSeq(blocks, LAMBDA b : b.type = type)

\* `step` holds the blocks of `buffer` in their places; `first` tells the root step.
StepDerivedFromBuffer(step, buffer, first) ==
    /\ first <=> buffer[1].type = "QueryRoot"
    /\ step.step_block = buffer[1]
    /\ Len(OfType(buffer, "MarkLocation")) = 1
    /\ step.as_block = buffer[Len(buffer)]
    /\ step.as_block.type = "MarkLocation"
    /\ step.where_block =
          IF OfType(buffer, "Filter") = << >> THEN NoBlock ELSE OfType(buffer, "Filter")[1]
    /\ step.step_types =
          IF first THEN buffer[1].start_class ELSE OfType(buffer, "CoerceType")[1].target_class
    /\ Cardinality(step.step_types) = 1

\* The smallest stream that is accepted.
C5_Example ==
    <<QueryRoot(RootClass), MarkLocation("L1"), GlobalOperationsStart, ConstructResult>>

(* C5: every step is derived from the step buffer that is closed:          *)
(* step_block is the buffer's first block, as_block its single and final   *)
(* MarkLocation, where_block its Filter if it has one and None otherwise,  *)
(* step_types the singleton of the QueryRoot's start type (first step) or  *)
(* of the CoerceType's target type (later steps); and [QueryRoot(T),       *)
(* MarkLocation(L), GlobalOperationsStart, ConstructResult] yields exactly *)
(* one step, with step_types {T}, where_block None, as_block L and         *)
(* linked_location None, and global_where_block None.                      *)
C5_StepDerivedFromItsBuffer ==
    /\ [][steps' # steps =>
            /\ steps' = Append(steps, steps'[Len(steps')])
            /\ StepDerivedFromBuffer(steps'[Len(steps')], current_step_blocks, steps = << >>)
         ]_vars
    /\ [](Returned /\ remaining_ir_blocks = C5_Example =>
            /\ result.steps = <<[linked_location |-> None,
                                 step_block |-> QueryRoot(RootClass),
                                 step_types |-> RootClass,
                                 where_block |-> NoBlock,
                                 as_block |-> MarkLocation("L1")]>>
            /\ result.global_where_block = NoBlock)

C5_Witness ==
    /\ Returned
    /\ Len(result.steps) = 2
    /\ result.steps[1].where_block = Filter(StepPredicate)
    /\ result.steps[2].where_block = NoBlock
    /\ result.steps[2].step_types = TargetClass

\* Each step is linked to nothing or to the bound location of an earlier step.
LinkedToEarlierSteps(query) ==
    \A i \in 1..Len(query.steps) :
        \/ query.steps[i].linked_location = None
        \/ \E j \in 1..(i - 1) :
              query.steps[j].as_block.location = query.steps[i].linked_location

\* Every Backtrack names a location that an earlier MarkLocation has marked.
BacktracksNameMarkedLocations(blocks) ==
    \A k \in 1..Len(blocks) :
        blocks[k].type = "Backtrack"
            => \E m \in 1..(k - 1) :
                  /\ blocks[m].type = "MarkLocation"
                  /\ blocks[m].location = blocks[k].location

(* C6, as claimed: in every returned query each step's linked_location is  *)
(* None or the location of the as_block of an earlier step, also when it   *)
(* was recorded from a Backtrack.                                          *)
C6_LinkedLocationIsEarlierBoundLocation ==
    Returned => LinkedToEarlierSteps(result)

(* C6, amended: this holds of the queries returned for streams in which    *)
(* every Backtrack names a location that a MarkLocation earlier in the     *)
(* stream has marked; the assembler does not check a Backtrack's location. *)
C6_LinkedLocationIsEarlierBoundLocationOfMarkedBacktracks ==
    Returned /\ BacktracksNameMarkedLocations(remaining_ir_blocks)
        => LinkedToEarlierSteps(result)

C6_Witness ==
    /\ Returned
    /\ BacktracksNameMarkedLocations(remaining_ir_blocks)
    /\ Len(result.steps) = 2
    /\ BlockTypes(BlocksBefore(remaining_ir_blocks, 2)) = <<"MarkLocation", "Backtrack">>
    /\ result.steps[2].linked_location = result.steps[1].as_block.location

\* The locations of the steps' as_blocks, in order.
BoundLocations(query) == [i \in 1..Len(query.steps) |-> query.steps[i].as_block.location]

\* No value occurs twice.
Distinct(seq) == \A i, j \in 1..Len(seq) : i # j => seq[i] # seq[j]

\* The locations of the stream's MarkLocation blocks, in order.
MarkedLocations(blocks) ==
    LET marks == OfType(blocks, "MarkLocation") IN
    [i \in 1..Len(marks) |-> marks[i].location]

(* C7, as claimed: in every returned query no two steps have the same      *)
(* bound location (the location of their as_block).                        *)
C7_BoundLocationsUnique ==
    Returned => Distinct(BoundLocations(result))

(* C7, amended: the bound locations of the steps are, in order, the        *)
(* locations of the stream's MarkLocation blocks, so no two steps have the *)
(* same bound location when no two MarkLocation blocks of the stream name  *)
(* the same location; the assembler does not reject a repeated location.   *)
C7_BoundLocationsAreTheMarkedLocations ==
    Returned =>
        /\ BoundLocations(result) = MarkedLocations(remaining_ir_blocks)
        /\ Distinct(MarkedLocations(remaining_ir_blocks)) => Distinct(BoundLocations(result))

C7_Witness ==
    /\ Returned
    /\ Len(result.steps) = 2
    /\ Distinct(MarkedLocations(remaining_ir_blocks))
    /\ BoundLocations(result) = <<"L2", "L1">>

(* C8: a QueryRoot is accepted only as the very first block of the stream: *)
(* a stream whose first block is not a QueryRoot, and a stream with a      *)
(* QueryRoot at any later position, is rejected with an error.             *)
C8_QueryRootOnlyFirst ==
    LET blocks == remaining_ir_blocks IN
    /\ pc \in {"returned", "raised"}
    /\ \/ blocks = << >>
       \/ blocks[1].type # "QueryRoot"
       \/ \E i \in 2..Len(blocks) : blocks[i].type = "QueryRoot"
    => pc = "raised"

\* The blocks that are not of a discarded type, in order.
StripDiscarded(blocks) == SelectSeq(blocks, LAMBDA b : b.type \notin discarded_block_types)

\* The stream without the discarded blocks that precede GlobalOperationsStart.
WithoutDiscarded(blocks) ==
    LET first == FirstGlobalOperationsStart(blocks) IN
    StripDiscarded(SubSeq(blocks, 1, first - 1)) \o SubSeq(blocks, first, Len(blocks))

(* C9: Unfold, OutputSource and EndOptional blocks before                  *)
(* GlobalOperationsStart change nothing: the call on a stream and the call *)
(* on the stream without them end alike, with the same steps,              *)
(* global_where_block and output_block, or both with an error; and after   *)
(* every block read, the loop stands where it stands without them.         *)
C9_DiscardedBlocksAreInert ==
    LET stripped == WithoutDiscarded(remaining_ir_blocks) IN
    stripped # remaining_ir_blocks =>
        IF pc \in {"loop", "global_operations"}
        THEN LET st == run_loop(InitialLoopState, stripped, 0) IN
             /\ st.pc = pc
             /\ st.steps = steps
             /\ st.current_step_blocks = current_step_blocks
             /\ st.linked_location = linked_location
             /\ st.next_linked_location = next_linked_location
        ELSE LET out == convert_to_cypher_query(folds, stripped) IN
             /\ out.query = result
             /\ out.raised = raised

C9_Witness ==
    /\ Returned
    /\ Len(result.steps) = 2
    /\ Len(WithoutDiscarded(remaining_ir_blocks)) < Len(remaining_ir_blocks)
    /\ BlockTypes(BlocksBefore(remaining_ir_blocks, 2)) = <<"MarkLocation", "EndOptional">>

(* C10: when the call returns, output_block is the one ConstructResult     *)
(* block, the last block of the stream; global_where_block is the Filter   *)
(* right after GlobalOperationsStart when the blocks after it are          *)
(* [Filter, ConstructResult], and None when they are [ConstructResult]; a  *)
(* Filter before GlobalOperationsStart is never the global_where_block.    *)
C10_GlobalOperationsBlocks ==
    Returned =>
        LET blocks == remaining_ir_blocks
            first == FirstGlobalOperationsStart(blocks)
            trailing == TrailingSection(blocks) IN
        /\ result.output_block = blocks[Len(blocks)]
        /\ result.output_block.type = "ConstructResult"
        /\ CountOf(blocks, {"ConstructResult"}) = 1
        /\ BlockTypes(trailing) = <<"Filter", "ConstructResult">>
              => result.global_where_block = blocks[first + 1]
        /\ BlockTypes(trailing) = <<"ConstructResult">>
              => result.global_where_block = NoBlock
        /\ \A i \in 1..(first - 1) : result.global_where_block # blocks[i]

C10_Witness ==
    /\ Returned
    /\ CountOf(MainSection(remaining_ir_blocks), {"Filter"}) = 1
    /\ BlockTypes(TrailingSection(remaining_ir_blocks)) = <<"Filter", "ConstructResult">>
    /\ result.global_where_block = Filter(GlobalPredicate)
    /\ result.output_block = ConstructResult

\* The blocks a step holds.
BlocksOfStep(step) ==
    {step.step_block, step.as_block} \cup (IF step.where_block = NoBlock THEN {} ELSE {step.where_block})

\* The blocks of the fold scopes of a mapping.
BlocksOfFolds(the_folds) ==
    UNION {{the_folds[l][i] : i \in 1..Len(the_folds[l])} : l \in DOMAIN the_folds}

(* C11: the folds of the returned query are the mapping the fold extractor *)
(* handed over, with the same keys and the same blocks; every block of a   *)
(* step is a block of the remaining stream and none is a block of a fold   *)
(* scope; and a call on a remaining stream that holds a Fold block ends    *)
(* with an error.                                                          *)
C11_FoldsHandedOverUntouched ==
    /\ folds \in FoldMappings
    /\ Returned => result.folds = folds /\ result.steps = steps
    /\ \A i \in 1..Len(steps) :
          /\ BlocksOfStep(steps[i])
                \subseteq {remaining_ir_blocks[k] : k \in 1..Len(remaining_ir_blocks)}
          /\ BlocksOfStep(steps[i]) \cap BlocksOfFolds(folds) = {}
    /\ pc \in {"returned", "raised"} /\ CountOf(remaining_ir_blocks, {"Fold"}) > 0
          => pc = "raised" /\ raised = "AssertionError"

C11_Witness ==
    /\ Returned
    /\ DOMAIN result.folds = {FoldLocation}
    /\ result.folds[FoldLocation][2] = Filter(FoldPredicate)
    /\ Len(result.steps) = 2
    /\ result.steps[1].where_block = Filter(StepPredicate)

---------------------------------------------------------------------------
(* emit_sql.py: the query tree and the metadata provider                   *)
(*                                                                         *)
(* The tree builder (ir_lowering_sql) and the provider (CompilerMetadata)  *)
(* are not part of the source at hand: a node has the attributes the       *)
(* emitter reads, and the provider answers as its interface is described.  *)
(* Nodes are numbered from 1, the root, in the order a depth-first walk    *)
(* meets them. A node hangs either in its parent's children_nodes (its     *)
(* block is a Traverse) or in its parent's recursions (its block is a      *)
(* Recurse); the two lists are separate, so the nodes of the first are     *)
(* numbered before those of the second. A node under an optional scope has *)
(* in_optional set, and so have the nodes it reaches by a Traverse.        *)

\* nodes of a query tree
MaxNodes == 4

NoNode == 0
NoTable == [kind |-> "None"]
NoColumn == [kind |-> "None"]
NoStatement == [kind |-> "None"]
NoWhere == [kind |-> "None"]

Range(seq) == {seq[i] : i \in 1..Len(seq)}

\* The numbering of the nodes is that of a depth-first walk.
IsPreorder(parent_node, size) ==
    \A i \in 2..size :
        /\ parent_node[i] \in 1..(i - 1)
        /\ \A j \in (parent_node[i] + 1)..(i - 1) : parent_node[j] >= parent_node[i]

\* The query trees of `size` nodes.
SqlQueryTreesOfSize(size) ==
    {[size |-> size, parent_node |-> parent_node, block |-> block, in_optional |-> in_optional] :
        parent_node \in {p \in [1..size -> 0..(size - 1)] :
                            p[1] = NoNode /\ IsPreorder(p, size)},
        block \in {b \in [1..size -> {"QueryRoot", "Traverse", "Recurse"}] :
                      \A i \in 1..size : b[i] = "QueryRoot" <=> i = 1},
        in_optional \in [1..size -> BOOLEAN]}

SqlQueryTrees ==
    {tree \in UNION {SqlQueryTreesOfSize(size) : size \in 1..MaxNodes} :
        \A i \in 1..tree.size :
            /\ tree.in_optional[i] => tree.block[i] = "Traverse"
            /\ \A j \in 1..tree.size :
                  tree.parent_node[j] = i /\ tree.block[j] = "Traverse"
                      => /\ tree.in_optional[i] => tree.in_optional[j]
                         /\ \A k \in 1..(j - 1) :
                               tree.parent_node[k] = i => tree.block[k] = "Traverse"}

NodesOf(tree) == 1..tree.size

\* The nodes of `among`, in the order of their numbers.
RECURSIVE InOrder(_)
InOrder(among) ==
    IF among = {} THEN << >>
    ELSE LET first == CHOOSE i \in among : \A j \in among : i <= j IN
         <<first>> \o InOrder(among \ {first})

\* node.children_nodes, and node.recursions as the tree builder leaves it
children_nodes(tree, node) ==
    InOrder({i \in NodesOf(tree) : tree.parent_node[i] = node /\ tree.block[i] = "Traverse"})

recursions_built(tree, node) ==
    InOrder({i \in NodesOf(tree) : tree.parent_node[i] = node /\ tree.block[i] = "Recurse"})

\* The selection and predicate objects of a node: one selection, and as many
\* predicates as the remainder of the node's number by three, so that nodes
\* without a filter, with one and with two all occur.
Selection(node, index) == [kind |-> "selection", node |-> node, index |-> index]
Predicate(node, index) == [kind |-> "predicate", node |-> node, index |-> index]

selections_built(node) == <<Selection(node, 1)>>

predicates_built(node) == [k \in 1..(node % 3) |-> Predicate(node, k)]

SqlBlocksOf(tree) ==
    UNION {Range(selections_built(node)) \cup Range(predicates_built(node)) :
              node \in NodesOf(tree)}

\* What the provider answers for a tree: the shape of its edges, the one edge
\* (if any) it resolves to neither shape, whether it then fails to give join
\* clauses for a child behind that edge, and its recursion combinator. At most
\* one of the failures is drawn for a call; the provider of direct edges
\* combines with union, that of junction edges with union_all.
RecursionCombinators == {"union", "union_all", "unsupported"}

CompilerMetadatas(tree) ==
    {meta \in [edge : {"BasicEdge", "MultiEdge"},
               unsupported_edge : {NoNode} \cup (NodesOf(tree) \ {1}),
               on_clause_raises : BOOLEAN,
               recursion_combinator : RecursionCombinators] :
        /\ meta.unsupported_edge # NoNode
              => meta.edge = "BasicEdge" /\ meta.recursion_combinator = "union"
        /\ meta.recursion_combinator = "union_all" <=> meta.edge = "MultiEdge"
        /\ meta.on_clause_raises
              => /\ meta.unsupported_edge # NoNode
                 /\ tree.block[meta.unsupported_edge] = "Traverse"}

\* compiler_metadata.get_edge, for the edge that leads to `node`
get_edge(meta, node) ==
    IF meta.unsupported_edge = node THEN "UnsupportedEdge" ELSE meta.edge

\* compiler_metadata.get_table(relation).alias(): a new alias of the node's relation
Alias(node) == [kind |-> "alias", relation |-> node]

\* query.cte(): the CTE made for a node; the query it wraps is kept in ctes
Cte(node) == [kind |-> "cte", node |-> node]

\* table.c[name]
Column(table, name) == [table |-> table, name |-> name]

\* The columns of the edge that leads to `node`.
EdgeColumn(node, col) == [edge |-> node, col |-> col]

\* left.join(right, onclause) and left.outerjoin(right, onclause)
Join(left, right, onclause, isouter) ==
    [kind |-> "join", left |-> left, right |-> right, onclause |-> onclause,
     isouter |-> isouter]

\* left == right, as a join condition
Equals(left, right) == [kind |-> "equals", left |-> left, right |-> right]

\* The index-th condition the provider gives for joining `child` to its parent.
OnClause(child, index) == [kind |-> "onclause", child |-> child, index |-> index]

\* compiler_metadata.get_on_clause_for_node: one (table, condition) pair for a
\* direct edge, two for a junction edge; for an edge of neither shape it fails
\* or gives no pair, as the provider at hand has it.
get_on_clause_for_node(tree, meta, child) ==
    LET edge == get_edge(meta, child) IN
    IF edge = "BasicEdge"
    THEN [raised |-> "None", onclauses |-> <<OnClause(child, 1)>>]
    ELSE IF edge = "MultiEdge"
    THEN [raised |-> "None", onclauses |-> <<OnClause(child, 1), OnClause(child, 2)>>]
    ELSE IF meta.on_clause_raises
    THEN [raised |-> "AssertionError", onclauses |-> << >>]
    ELSE [raised |-> "None", onclauses |-> << >>]

---------------------------------------------------------------------------
(* emit_sql.py: the operations on the state of one call                    *)

\* The state of a call: what it was given and what it has made of it.
EmitterState ==
    [tree |-> sql_query_tree, metadata |-> compiler_metadata, nodes |-> nodes,
     sql_blocks |-> sql_blocks, ctes |-> ctes, stack |-> call_stack,
     raised |-> emit_raised, statement |-> statement, trace |-> trace]

\* A call in progress: the function, its node, where it stands, the position of
\* its loop, and its locals (a column, a list of selections, a query).
Frame(fn, node, at, column) ==
    [fn |-> fn, node |-> node, pc |-> at, index |-> 1, column |-> column,
     returned |-> NoColumn, selections |-> << >>, query |-> NoStatement]

Top(em) == em.stack[Len(em.stack)]

Pop(em) == [em EXCEPT !.stack = SubSeq(@, 1, Len(@) - 1)]

Push(em, frame) == [em EXCEPT !.stack = Append(@, frame)]

SetTop(em, frame) == [em EXCEPT !.stack[Len(em.stack)] = frame]

Log(em, op, node, other) ==
    [em EXCEPT !.trace = Append(@, [op |-> op, node |-> node, other |-> other])]

RaiseIn(em, kind) == [em EXCEPT !.raised = kind]

\* _query_tree_to_query(node, ..., recursion_in_column), entered: its first
\* statement is the call of _collapse_query_tree(node).
Call_query_tree_to_query(em, node, recursion_in_column) ==
    Push(Push(em, Frame("_query_tree_to_query", node,
                        IF em.tree.block[node] = "Recurse"
                        THEN "_create_recursive_clause" ELSE "_create_base_query",
                        recursion_in_column)),
         Frame("_collapse_query_tree", node, "children", NoColumn))

\* The state after construction: the tree as built, and emit_code_from_ir entered.
InitialEmitterState(tree, meta) ==
    Call_query_tree_to_query(
        [tree |-> tree, metadata |-> meta,
         nodes |-> [node \in NodesOf(tree) |->
                      [table |-> NoTable, from_clause |-> NoTable,
                       selections |-> selections_built(node),
                       predicates |-> predicates_built(node),
                       recursions |-> recursions_built(tree, node),
                       recursion_to_column |-> << >>,
                       link_columns |-> << >>]],
         sql_blocks |-> [block \in SqlBlocksOf(tree) |-> [table |-> NoTable, renames |-> 0]],
         ctes |-> [node \in NodesOf(tree) |-> NoStatement],
         stack |-> << >>, raised |-> "None", statement |-> NoStatement, trace |-> << >>],
        1, NoColumn)

\* _update_table_for_blocks
update_table_for_blocks(em, table, blocks) ==
    [em EXCEPT !.sql_blocks =
        [block \in DOMAIN @ |->
            IF block \in Range(blocks) THEN [@[block] EXCEPT !.table = table] ELSE @[block]]]

\* _create_and_reference_table
create_and_reference_table(em, node) ==
    LET table == Alias(node)
        bound == [em EXCEPT !.nodes[node].table = table,
                            !.nodes[node].from_clause = table] IN
    update_table_for_blocks(
        update_table_for_blocks(bound, table, bound.nodes[node].selections),
        table, bound.nodes[node].predicates)

\* dict[key] = value
Put(dict, key, value) ==
    [k \in DOMAIN dict \cup {key} |-> IF k = key THEN value ELSE dict[k]]

\* The key of recursion_to_column for a recursion node, and for a recursive query.
NodeKey(node) == [kind |-> "node", node |-> node]

RecursiveQuery(node) == [kind |-> "recursive_query", node |-> node]

\* node.add_recursive_link_column(recursion, column)
add_recursive_link_column(em, node, key, column) ==
    [em EXCEPT !.nodes[node].recursion_to_column = Put(@, key, column),
               !.nodes[node].link_columns = Append(@, column)]

\* _create_link_for_recursion
create_link_for_recursion(em, node, recursion) ==
    LET edge == get_edge(em.metadata, recursion) IN
    IF edge = "BasicEdge"
    THEN add_recursive_link_column(em, node, NodeKey(recursion),
             Column(em.nodes[node].table, EdgeColumn(recursion, "source_col")))
    ELSE IF edge = "MultiEdge"
    THEN add_recursive_link_column(em, node, NodeKey(recursion),
             Column(em.nodes[node].table, EdgeColumn(recursion, "junction_edge.source_col")))
    ELSE RaiseIn(em, "AssertionError")

\* _create_links_for_recursions, from the index-th recursion on
RECURSIVE create_links_for_recursions_from(_, _, _)
create_links_for_recursions_from(em, node, index) ==
    IF em.raised # "None" \/ index > Len(em.nodes[node].recursions)
    THEN em
    ELSE create_links_for_recursions_from(
             create_link_for_recursion(em, node, em.nodes[node].recursions[index]),
             node, index + 1)

create_links_for_recursions(em, node) == create_links_for_recursions_from(em, node, 1)

\* Mutant: a child whose selections the parent already has is not pulled up again.
pull_up_node_blocks_once(em, node, child_node) ==
    LET child == em.nodes[child_node] IN
    IF Range(child.selections) \subseteq Range(em.nodes[node].selections)
    THEN em
    ELSE [em EXCEPT
            !.nodes[node].selections = @ \o child.selections,
            !.nodes[node].predicates = @ \o child.predicates,
            !.nodes[node].recursions = @ \o child.recursions,
            !.nodes[node].recursion_to_column =
                [k \in DOMAIN @ \cup DOMAIN child.recursion_to_column |->
                    IF k \in DOMAIN child.recursion_to_column
                    THEN child.recursion_to_column[k] ELSE @[k]],
            !.nodes[node].link_columns = @ \o child.link_columns]

\* Mutant: the selections of a child are put in front of the parent's.
pull_up_node_blocks_prepending(em, node, child_node) ==
    LET child == em.nodes[child_node] IN
    [em EXCEPT
        !.nodes[node].selections = child.selections \o @,
        !.nodes[node].predicates = @ \o child.predicates,
        !.nodes[node].recursions = @ \o child.recursions,
        !.nodes[node].recursion_to_column =
            [k \in DOMAIN @ \cup DOMAIN child.recursion_to_column |->
                IF k \in DOMAIN child.recursion_to_column
                THEN child.recursion_to_column[k] ELSE @[k]],
        !.nodes[node].link_columns = @ \o child.link_columns]

\* Mutant: the link columns recorded for a child's recursions stay with the child.
pull_up_node_blocks_without_links(em, node, child_node) ==
    LET child == em.nodes[child_node] IN
    [em EXCEPT
        !.nodes[node].selections = @ \o child.selections,
        !.nodes[node].predicates = @ \o child.predicates,
        !.nodes[node].recursions = @ \o child.recursions,
        !.nodes[node].link_columns = @ \o child.link_columns]

\* _pull_up_node_blocks
pull_up_node_blocks(em, node, child_node) ==
    LET child == em.nodes[child_node] IN
    [em EXCEPT
        !.nodes[node].selections = @ \o child.selections,
        !.nodes[node].predicates = @ \o child.predicates,
        !.nodes[node].recursions = @ \o child.recursions,
        !.nodes[node].recursion_to_column =
            [k \in DOMAIN @ \cup DOMAIN child.recursion_to_column |->
                IF k \in DOMAIN child.recursion_to_column
                THEN child.recursion_to_column[k] ELSE @[k]],
        !.nodes[node].link_columns = @ \o child.link_columns]

\* The loop of _join_to_node over the conditions, from the index-th on.
RECURSIVE join_each(_, _, _, _, _, _)
join_each(em, node, child_node, onclauses, isouter, index) ==
    IF index > Len(onclauses)
    THEN em
    ELSE join_each(
             [em EXCEPT !.nodes[node].from_clause =
                 Join(@, em.nodes[child_node].from_clause, onclauses[index], isouter)],
             node, child_node, onclauses, isouter, index + 1)

\* Mutant: every child is joined with an inner join.
join_to_node_always_inner(em, node, child_node) ==
    LET got == get_on_clause_for_node(em.tree, em.metadata, child_node) IN
    IF got.raised # "None"
    THEN RaiseIn(em, got.raised)
    ELSE join_each(em, node, child_node, got.onclauses, FALSE, 1)

\* _join_to_node
join_to_node(em, node, child_node) ==
    LET got == get_on_clause_for_node(em.tree, em.metadata, child_node) IN
    IF got.raised # "None"
    THEN RaiseIn(em, got.raised)
    ELSE IF em.tree.in_optional[child_node]
    THEN join_each(em, node, child_node, got.onclauses, TRUE, 1)
    ELSE join_each(em, node, child_node, got.onclauses, FALSE, 1)

\* hasattr(recursive_cte, recursion_combinator)
hasattr_recursive_cte(recursion_combinator) == recursion_combinator \in {"union", "union_all"}

\* _create_recursive_clause: the state it leaves and the column it returns. The
\* columns are those of a traversal in direction 'out'.
create_recursive_clause(em, node, out_link_column) ==
    LET edge == get_edge(em.metadata, node) IN
    IF edge \notin {"BasicEdge", "MultiEdge"}
    THEN [em |-> RaiseIn(em, "AssertionError"), column |-> NoColumn]
    ELSE IF ~hasattr_recursive_cte(em.metadata.recursion_combinator)
    THEN [em |-> RaiseIn(em, "AssertionError"), column |-> NoColumn]
    ELSE LET base_col == IF edge = "BasicEdge" THEN "source_col"
                         ELSE "junction_edge.source_col"
             source_col == IF edge = "BasicEdge" THEN "source_col"
                           ELSE "final_edge.source_col"
             sink_col == IF edge = "BasicEdge" THEN "sink_col"
                         ELSE "junction_edge.sink_col"
             recursive_query == RecursiveQuery(node)
             column == Column(recursive_query, EdgeColumn(node, sink_col))
             joined == [em EXCEPT !.nodes[node].from_clause =
                           Join(@, recursive_query,
                                Equals(Column(em.nodes[node].table,
                                              EdgeColumn(node, base_col)),
                                       Column(recursive_query,
                                              EdgeColumn(node, source_col))),
                                FALSE)] IN
         [em |-> add_recursive_link_column(joined, node, recursive_query, column),
          column |-> column]

\* compiler_metadata.get_column_for_block: the column of a selection on the
\* table the selection is bound to
get_column_for_block(em, selection) == Column(em.sql_blocks[selection].table, selection)

\* compiler_metadata.get_predicate_condition
get_predicate_condition(em, node, predicate) ==
    [kind |-> "condition", predicate |-> predicate,
     table |-> em.sql_blocks[predicate].table]

\* A list of conditions, and the conjunction and_(*conditions) of them.
List(items) == [kind |-> "list", items |-> items]

And(clauses) == [kind |-> "and", clauses |-> clauses]

\* _create_query: select(columns, distinct=True).select_from(node.from_clause),
\* with .where(and_(*predicates)) unless predicates is None
create_query(em, node, columns, predicates) ==
    [kind |-> "select", columns |-> columns, distinct |-> TRUE,
     from_clause |-> em.nodes[node].from_clause,
     where |-> IF predicates.kind = "None" THEN NoWhere ELSE And(predicates.items)]

\* Mutant: the base query has no WHERE clause.
create_base_query_unfiltered(em, node) ==
    LET the_selections == em.nodes[node].selections
        the_predicates == em.nodes[node].predicates
        selection_columns ==
            [i \in 1..Len(the_selections) |-> get_column_for_block(em, the_selections[i])]
            \o em.nodes[node].link_columns IN
    create_query(em, node, selection_columns, NoWhere)

\* Mutant: the base query selects the columns of the selections only.
create_base_query_without_links(em, node) ==
    LET the_selections == em.nodes[node].selections
        the_predicates == em.nodes[node].predicates
        selection_columns ==
            [i \in 1..Len(the_selections) |-> get_column_for_block(em, the_selections[i])]
        predicates ==
            [i \in 1..Len(the_predicates) |->
                get_predicate_condition(em, node, the_predicates[i])] IN
    create_query(em, node, selection_columns, List(predicates))

\* _create_base_query
create_base_query(em, node) ==
    LET the_selections == em.nodes[node].selections
        the_predicates == em.nodes[node].predicates
        selection_columns ==
            [i \in 1..Len(the_selections) |-> get_column_for_block(em, the_selections[i])]
            \o em.nodes[node].link_columns
        predicates ==
            [i \in 1..Len(the_predicates) |->
                get_predicate_condition(em, node, the_predicates[i])] IN
    create_query(em, node, selection_columns, List(predicates))

\* selection.rename(), for each of the selections
rename_each(em, the_selections) ==
    [em EXCEPT !.sql_blocks =
        [block \in DOMAIN @ |->
            [@[block] EXCEPT !.renames =
                @ + Cardinality({i \in 1..Len(the_selections) : the_selections[i] = block})]]]

\* Mutant: the selections are bound to the CTE and keep their names.
wrap_query_as_cte_without_rename(em, node, query) ==
    LET cte == Cte(node)
        wrapped == [em EXCEPT !.ctes[node] = query,
                              !.nodes[node].from_clause = cte,
                              !.nodes[node].table = cte] IN
    update_table_for_blocks(wrapped, cte, wrapped.nodes[node].selections)

\* _wrap_query_as_cte
wrap_query_as_cte(em, node, query) ==
    LET cte == Cte(node)
        wrapped == [em EXCEPT !.ctes[node] = query,
                              !.nodes[node].from_clause = cte,
                              !.nodes[node].table = cte] IN
    rename_each(update_table_for_blocks(wrapped, cte, wrapped.nodes[node].selections),
                wrapped.nodes[node].selections)

\* _join_to_recursive_node
join_to_recursive_node(em, node, recursion_in_column, recursive_node, recursion_out_column) ==
    LET current_cte_column == Column(em.nodes[node].table, recursion_in_column.name)
        recursive_cte_column ==
            Column(em.nodes[recursive_node].table, recursion_out_column.name) IN
    [em EXCEPT !.nodes[node].from_clause =
        Join(@, em.nodes[recursive_node].from_clause,
             Equals(current_cte_column, recursive_cte_column), FALSE)]

\* Mutant: the final statement filters by the root's predicates once more.
create_final_query_filtered(em, node) ==
    LET the_selections == em.nodes[node].selections
        the_predicates == em.nodes[node].predicates
        columns ==
            [i \in 1..Len(the_selections) |-> get_column_for_block(em, the_selections[i])] IN
    create_query(em, node, columns,
        List([i \in 1..Len(the_predicates) |->
                 get_predicate_condition(em, node, the_predicates[i])]))

\* _create_final_query
create_final_query(em, node) ==
    LET the_selections == em.nodes[node].selections
        columns ==
            [i \in 1..Len(the_selections) |-> get_column_for_block(em, the_selections[i])] IN
    create_query(em, node, columns, NoWhere)

---------------------------------------------------------------------------
(* emit_sql.py: the steps of a call, each on the call that is running      *)

\* The running call returns: control is back at the statement after the call.
Return(em) == Pop(em)

\* _collapse_query_tree, its first loop: _collapse_query_tree(child_node)
collapse_child(em) ==
    LET frame == Top(em)
        child_node == children_nodes(em.tree, frame.node)[frame.index] IN
    Push(SetTop(em, [frame EXCEPT !.index = @ + 1]),
         Frame("_collapse_query_tree", child_node, "children", NoColumn))

\* _collapse_query_tree, after its first loop: _create_and_reference_table(node)
on_create_and_reference_table(em) ==
    LET frame == Top(em) IN
    Log(SetTop(create_and_reference_table(em, frame.node),
               [frame EXCEPT !.pc = "_create_links_for_recursions"]),
        "_create_and_reference_table", frame.node, NoNode)

\* _collapse_query_tree: _create_links_for_recursions(node); a node without
\* children is done with it.
on_create_links_for_recursions(em) ==
    LET frame == Top(em)
        linked == Log(create_links_for_recursions(em, frame.node),
                      "_create_links_for_recursions", frame.node, NoNode) IN
    IF linked.raised # "None"
    THEN linked
    ELSE IF children_nodes(em.tree, frame.node) = << >>
    THEN Return(linked)
    ELSE SetTop(linked, [frame EXCEPT !.pc = "_pull_up_node_blocks", !.index = 1])

\* _collapse_query_tree, its second loop: _pull_up_node_blocks(node, child_node)
on_pull_up_node_blocks(em) ==
    LET frame == Top(em)
        child_node == children_nodes(em.tree, frame.node)[frame.index] IN
    Log(SetTop(pull_up_node_blocks(em, frame.node, child_node),
               [frame EXCEPT !.pc = "_join_to_node"]),
        "_pull_up_node_blocks", frame.node, child_node)

\* _collapse_query_tree, its second loop: _join_to_node(node, child_node); after
\* the last child the function returns.
on_join_to_node(em) ==
    LET frame == Top(em)
        children == children_nodes(em.tree, frame.node)
        child_node == children[frame.index]
        joined == Log(join_to_node(em, frame.node, child_node),
                      "_join_to_node", frame.node, child_node) IN
    IF joined.raised # "None"
    THEN joined
    ELSE IF frame.index = Len(children)
    THEN Return(joined)
    ELSE SetTop(joined, [frame EXCEPT !.pc = "_pull_up_node_blocks", !.index = @ + 1])

\* _query_tree_to_query, step 2: _create_recursive_clause(node, ..., recursion_in_column)
on_create_recursive_clause(em) ==
    LET frame == Top(em)
        made == create_recursive_clause(em, frame.node, frame.column)
        logged == Log(made.em, "_create_recursive_clause", frame.node, NoNode) IN
    IF logged.raised # "None"
    THEN logged
    ELSE SetTop(logged, [frame EXCEPT !.pc = "_create_base_query",
                                      !.returned = made.column])

\* _query_tree_to_query, step 3: query = _create_base_query(node, ...)
on_create_base_query(em) ==
    LET frame == Top(em) IN
    Log(SetTop(em, [frame EXCEPT !.pc = "_wrap_query_as_cte",
                                 !.query = create_base_query(em, frame.node)]),
        "_create_base_query", frame.node, NoNode)

\* _query_tree_to_query, step 3: _wrap_query_as_cte(node, query), and step 4
\* entered: _traverse_recursions(node, ...)
on_wrap_query_as_cte(em) ==
    LET frame == Top(em)
        wrapped == Log(wrap_query_as_cte(em, frame.node, frame.query),
                       "_wrap_query_as_cte", frame.node, NoNode) IN
    Push(SetTop(wrapped, [frame EXCEPT !.pc = "return"]),
         Frame("_traverse_recursions", frame.node, "_query_tree_to_query", NoColumn))

\* _traverse_recursions, its loop: the column recorded for the recursion is
\* looked up and _query_tree_to_query(recursive_node, ...) is entered.
on_traverse_recursion(em) ==
    LET frame == Top(em)
        recursive_node == em.nodes[frame.node].recursions[frame.index]
        recursion_to_column == em.nodes[frame.node].recursion_to_column IN
    IF NodeKey(recursive_node) \notin DOMAIN recursion_to_column
    THEN RaiseIn(em, "KeyError")
    ELSE LET recursion_in_column == recursion_to_column[NodeKey(recursive_node)] IN
         Log(Call_query_tree_to_query(
                 SetTop(em, [frame EXCEPT !.pc = "_join_to_recursive_node",
                                          !.column = recursion_in_column]),
                 recursive_node, recursion_in_column),
             "_query_tree_to_query", recursive_node, frame.node)

\* Mutant: the loop of _traverse_recursions does not move on to the next recursion.
on_join_to_recursive_node_staying(em) ==
    LET frame == Top(em)
        recursive_node == em.nodes[frame.node].recursions[frame.index]
        joined == join_to_recursive_node(em, frame.node, frame.column,
                                         recursive_node, frame.returned) IN
    Log(SetTop(joined,
               [frame EXCEPT !.pc = "_query_tree_to_query",
                             !.selections = @ \o em.nodes[recursive_node].selections]),
        "_join_to_recursive_node", frame.node, recursive_node)

\* _traverse_recursions, its loop after the call: the selections of the recursion
\* are collected and _join_to_recursive_node joins it to the node.
on_join_to_recursive_node(em) ==
    LET frame == Top(em)
        recursive_node == em.nodes[frame.node].recursions[frame.index]
        joined == join_to_recursive_node(em, frame.node, frame.column,
                                         recursive_node, frame.returned) IN
    Log(SetTop(joined,
               [frame EXCEPT !.pc = "_query_tree_to_query",
                             !.index = @ + 1,
                             !.selections = @ \o em.nodes[recursive_node].selections]),
        "_join_to_recursive_node", frame.node, recursive_node)

\* _traverse_recursions, after its loop:
\* node.selections = node.selections + recursive_selections
on_recursions_traversed(em) ==
    LET frame == Top(em) IN
    Return([em EXCEPT !.nodes[frame.node].selections = @ \o frame.selections])

\* _query_tree_to_query, at its end, for the node without a parent:
\* return _create_final_query(node, ...)
on_create_final_query(em) ==
    LET frame == Top(em) IN
    Log(Return([em EXCEPT !.statement = create_final_query(em, frame.node)]),
        "_create_final_query", frame.node, NoNode)

\* _query_tree_to_query, at its end, for a node with a parent:
\* return recursion_out_column, to the loop of _traverse_recursions
on_return_recursion_out_column(em) ==
    LET frame == Top(em)
        returned == Return(em)
        caller == Top(returned) IN
    SetTop(returned, [caller EXCEPT !.returned = frame.returned])

\* The calls of the emitter that a step can stand at.
Running(em) == em.stack # << >> /\ em.raised = "None"

At(em, fn, at) == Running(em) /\ Top(em).fn = fn /\ Top(em).pc = at

CanCollapseChild(em) ==
    /\ At(em, "_collapse_query_tree", "children")
    /\ Top(em).index <= Len(children_nodes(em.tree, Top(em).node))

\* Mutant: the node is bound to its table before its children are collapsed.
CanCreateAndReferenceTable_before_children(em) ==
    At(em, "_collapse_query_tree", "children")

CanCreateAndReferenceTable(em) ==
    /\ At(em, "_collapse_query_tree", "children")
    /\ Top(em).index > Len(children_nodes(em.tree, Top(em).node))

CanTraverseRecursion(em) ==
    /\ At(em, "_traverse_recursions", "_query_tree_to_query")
    /\ Top(em).index <= Len(em.nodes[Top(em).node].recursions)

CanFinishRecursions(em) ==
    /\ At(em, "_traverse_recursions", "_query_tree_to_query")
    /\ Top(em).index > Len(em.nodes[Top(em).node].recursions)

CanCreateFinalQuery(em) ==
    /\ At(em, "_query_tree_to_query", "return")
    /\ em.tree.parent_node[Top(em).node] = NoNode

CanReturnRecursionOutColumn(em) ==
    /\ At(em, "_query_tree_to_query", "return")
    /\ em.tree.parent_node[Top(em).node] # NoNode

\* One step of the call, whichever it stands at.
emit_step(em) ==
    IF CanCollapseChild(em) THEN collapse_child(em)
    ELSE IF CanCreateAndReferenceTable(em) THEN on_create_and_reference_table(em)
    ELSE IF At(em, "_collapse_query_tree", "_create_links_for_recursions")
         THEN on_create_links_for_recursions(em)
    ELSE IF At(em, "_collapse_query_tree", "_pull_up_node_blocks")
         THEN on_pull_up_node_blocks(em)
    ELSE IF At(em, "_collapse_query_tree", "_join_to_node") THEN on_join_to_node(em)
    ELSE IF At(em, "_query_tree_to_query", "_create_recursive_clause")
         THEN on_create_recursive_clause(em)
    ELSE IF At(em, "_query_tree_to_query", "_create_base_query")
         THEN on_create_base_query(em)
    ELSE IF At(em, "_query_tree_to_query", "_wrap_query_as_cte")
         THEN on_wrap_query_as_cte(em)
    ELSE IF CanTraverseRecursion(em) THEN on_traverse_recursion(em)
    ELSE IF At(em, "_traverse_recursions", "_join_to_recursive_node")
         THEN on_join_to_recursive_node(em)
    ELSE IF CanFinishRecursions(em) THEN on_recursions_traversed(em)
    ELSE IF CanCreateFinalQuery(em) THEN on_create_final_query(em)
    ELSE IF CanReturnRecursionOutColumn(em) THEN on_return_recursion_out_column(em)
    ELSE em

\* The call to its end: emit_code_from_ir as a function of the tree and the provider.
RECURSIVE run_emitter(_)
run_emitter(em) == IF Running(em) THEN run_emitter(emit_step(em)) ELSE em

emit_code_from_ir(tree, meta) == run_emitter(InitialEmitterState(tree, meta))

\* emit_code_from_ir called once more with the same tree object and provider:
\* the nodes and their blocks are as the call before has left them.
emit_code_from_ir_again(em) ==
    run_emitter(Call_query_tree_to_query(
        [em EXCEPT !.stack = << >>, !.raised = "None", !.statement = NoStatement,
                   !.trace = << >>],
        1, NoColumn))

---------------------------------------------------------------------------
(* emit_sql.py: the state machine of one call *)

\* The assembler before any call.
AssemblerIdle ==
    /\ folds = << >>
    /\ remaining_ir_blocks = << >>
    /\ steps = << >>
    /\ current_step_blocks = NoBlocks
    /\ linked_location = None
    /\ next_linked_location = None
    /\ global_operations_index = NoIndex
    /\ pc = "idle"
    /\ raised = None
    /\ result = NoQuery

EmitInit ==
    /\ sql_query_tree \in SqlQueryTrees
    /\ compiler_metadata \in CompilerMetadatas(sql_query_tree)
    /\ LET em == InitialEmitterState(sql_query_tree, compiler_metadata) IN
        /\ nodes = em.nodes
        /\ sql_blocks = em.sql_blocks
        /\ ctes = em.ctes
        /\ call_stack = em.stack
        /\ emit_raised = em.raised
        /\ statement = em.statement
        /\ trace = em.trace
    /\ AssemblerIdle
    /\ CteIdle

\* The running call takes the step that has the given outcome.
Emit(outcome) ==
    /\ \E em \in {outcome} :
        /\ nodes' = em.nodes
        /\ sql_blocks' = em.sql_blocks
        /\ ctes' = em.ctes
        /\ call_stack' = em.stack
        /\ emit_raised' = em.raised
        /\ statement' = em.statement
        /\ trace' = em.trace
    /\ UNCHANGED <<sql_query_tree, compiler_metadata>>
    /\ UNCHANGED vars
    /\ UNCHANGED cte_vars

CollapseChild ==
    CanCollapseChild(EmitterState) /\ Emit(collapse_child(EmitterState))

CreateAndReferenceTable ==
    CanCreateAndReferenceTable(EmitterState)
        /\ Emit(on_create_and_reference_table(EmitterState))

CreateLinksForRecursions ==
    At(EmitterState, "_collapse_query_tree", "_create_links_for_recursions")
        /\ Emit(on_create_links_for_recursions(EmitterState))

PullUpNodeBlocks ==
    At(EmitterState, "_collapse_query_tree", "_pull_up_node_blocks")
        /\ Emit(on_pull_up_node_blocks(EmitterState))

JoinToNode ==
    At(EmitterState, "_collapse_query_tree", "_join_to_node")
        /\ Emit(on_join_to_node(EmitterState))

CreateRecursiveClause ==
    At(EmitterState, "_query_tree_to_query", "_create_recursive_clause")
        /\ Emit(on_create_recursive_clause(EmitterState))

CreateBaseQuery ==
    At(EmitterState, "_query_tree_to_query", "_create_base_query")
        /\ Emit(on_create_base_query(EmitterState))

WrapQueryAsCte ==
    At(EmitterState, "_query_tree_to_query", "_wrap_query_as_cte")
        /\ Emit(on_wrap_query_as_cte(EmitterState))

TraverseRecursion ==
    CanTraverseRecursion(EmitterState) /\ Emit(on_traverse_recursion(EmitterState))

JoinToRecursiveNode ==
    At(EmitterState, "_traverse_recursions", "_join_to_recursive_node")
        /\ Emit(on_join_to_recursive_node(EmitterState))

RecursionsTraversed ==
    CanFinishRecursions(EmitterState) /\ Emit(on_recursions_traversed(EmitterState))

CreateFinalQuery ==
    CanCreateFinalQuery(EmitterState) /\ Emit(on_create_final_query(EmitterState))

ReturnRecursionOutColumn ==
    CanReturnRecursionOutColumn(EmitterState)
        /\ Emit(on_return_recursion_out_column(EmitterState))

EmitNext ==
    \/ CollapseChild
    \/ CreateAndReferenceTable
    \/ CreateLinksForRecursions
    \/ PullUpNodeBlocks
    \/ JoinToNode
    \/ CreateRecursiveClause
    \/ CreateBaseQuery
    \/ WrapQueryAsCte
    \/ TraverseRecursion
    \/ JoinToRecursiveNode
    \/ RecursionsTraversed
    \/ CreateFinalQuery
    \/ ReturnRecursionOutColumn

EmitSpec == EmitInit /\ [][EmitNext]_<<vars, emit_vars, cte_vars>>


---------------------------------------------------------------------------
(* emit_sql.py: what a call has built, read back                           *)

\* The joins of a from-clause, the nested ones included.
RECURSIVE JoinsOf(_)
JoinsOf(from_clause) ==
    IF from_clause.kind = "join"
    THEN {from_clause} \cup JoinsOf(from_clause.left) \cup JoinsOf(from_clause.right)
    ELSE {}

\* The queries a call has built: the base queries of the nodes and the statement.
QueriesOf(em) ==
    ({em.ctes[node] : node \in NodesOf(em.tree)} \cup {em.statement}) \ {NoStatement}

\* Every from-clause a call has built: the nodes' and the queries'.
FromClausesOf(em) ==
    {em.nodes[node].from_clause : node \in NodesOf(em.tree)}
        \cup {query.from_clause : query \in QueriesOf(em)}

\* The joins composed by _join_to_node: those on a condition of the provider.
ChildJoinsOf(em) ==
    {join \in UNION {JoinsOf(from_clause) : from_clause \in FromClausesOf(em)} :
        join.onclause.kind = "onclause"}

\* A from-clause with the kind of every join to the given child exchanged.
RECURSIVE WithJoinKindExchanged(_, _)
WithJoinKindExchanged(from_clause, child) ==
    IF from_clause.kind # "join"
    THEN from_clause
    ELSE Join(WithJoinKindExchanged(from_clause.left, child),
              WithJoinKindExchanged(from_clause.right, child),
              from_clause.onclause,
              IF from_clause.onclause.kind = "onclause" /\ from_clause.onclause.child = child
              THEN ~from_clause.isouter ELSE from_clause.isouter)

QueryWithJoinKindExchanged(query, child) ==
    IF query = NoStatement
    THEN query
    ELSE [query EXCEPT !.from_clause = WithJoinKindExchanged(@, child)]

\* The ordinary children of the tree.
OrdinaryChildren(tree) == {node \in NodesOf(tree) : tree.block[node] = "Traverse"}

(* C12: every join composed for an ordinary child is an outer join when the
   child is in_optional and an inner join when it is not, and the call on the
   tree with one child's flag exchanged gives the same result with the kind of
   that child's joins exchanged and nothing else changed. *)
C12_OptionalChildOuterJoined ==
    /\ \A join \in ChildJoinsOf(EmitterState) :
          join.isouter = sql_query_tree.in_optional[join.onclause.child]
    /\ ~Running(EmitterState) =>
          \A child \in OrdinaryChildren(sql_query_tree) :
              LET other == emit_code_from_ir(
                               [sql_query_tree EXCEPT !.in_optional[child] = ~@],
                               compiler_metadata) IN
              /\ other.raised = emit_raised
              /\ other.statement = QueryWithJoinKindExchanged(statement, child)
              /\ other.ctes = [node \in NodesOf(sql_query_tree) |->
                                  QueryWithJoinKindExchanged(ctes[node], child)]
              /\ other.sql_blocks = sql_blocks
              /\ other.trace = trace

C12_Witness ==
    /\ statement # NoStatement
    /\ \E outer, inner \in JoinsOf(ctes[1].from_clause) :
          /\ outer.isouter /\ outer.onclause.kind = "onclause"
          /\ sql_query_tree.in_optional[outer.onclause.child]
          /\ ~inner.isouter /\ inner.onclause.kind = "onclause"
          /\ ~sql_query_tree.in_optional[inner.onclause.child]


\* The predicates applied by the WHERE clause of a query.
PredicatesAppliedBy(query) ==
    IF query = NoStatement \/ query.where = NoWhere
    THEN {}
    ELSE {query.where.clauses[i].predicate : i \in 1..Len(query.where.clauses)}

(* C13: no predicate belonging to a child under an optional scope is applied in
   the WHERE clause of a base query, the query that joins the child to its
   parent. *)
C13_OptionalPredicatesNotInJoiningWhere ==
    \A node \in NodesOf(sql_query_tree) :
        \A predicate \in PredicatesAppliedBy(ctes[node]) :
            ~sql_query_tree.in_optional[predicate.node]


---------------------------------------------------------------------------
(* emit_sql.py, lines 88-129: the recursive CTE and its evaluation.        *)
(* The database evaluates WITH RECURSIVE by iteration: the anchor query    *)
(* gives the first rows, the recursive query is applied to the rows of the *)
(* last iteration, and the evaluation ends when it gives no row. The       *)
(* tables are sets of rows, so that the two combinators give the same rows.*)

MaxEdges == 3
MaxDepth == 2

\* The values of a key column.
Keys == {1, 2, 11}

Digits == <<"0", "1", "2", "3", "4", "5", "6", "7", "8", "9">>

\* cast(column, String()): the decimal digits of the key, as a sequence of characters
RECURSIVE cast_String(_)
cast_String(key) ==
    IF key < 10
    THEN <<Digits[key + 1]>>
    ELSE cast_String(key \div 10) \o <<Digits[(key % 10) + 1]>>

\* column.concat(other)
concat(string, other) == string \o other

\* column.contains(other): other occurs in string as a substring
contains(string, other) ==
    \E i \in 0..(Len(string) - Len(other)) : SubSeq(string, i + 1, i + Len(other)) = other

\* The names source_col and sink_col stand for, after the exchange for direction 'in'.
source_col(direction) == IF direction = "in" THEN "sink_col" ELSE "source_col"

sink_col(direction) == IF direction = "in" THEN "source_col" ELSE "sink_col"

\* A row of the recursive CTE: its columns labelled source_col and sink_col, its
\* depth counter and its path.
CteRow(direction, source, sink, depth, path) ==
    IF source_col(direction) = "source_col"
    THEN [source_col |-> source, sink_col |-> sink, depth |-> depth, path |-> path]
    ELSE [source_col |-> sink, sink_col |-> source, depth |-> depth, path |-> path]

\* Mutant: the anchor rows start the depth counter at 1.
anchor_query_from_depth_one(table, link, direction) ==
    {CteRow(direction, base_column, base_column, 1,
            concat(cast_String(base_column), <<",">>)) :
        base_column \in {row \in table : row \in link}}

\* anchor_query: the base column of the rows of node.table that join a distinct
\* value of the parent's link column, at depth 0, with the path "key,".
anchor_query(table, link, direction) ==
    {CteRow(direction, base_column, base_column, 0,
            concat(cast_String(base_column), <<",">>)) :
        base_column \in {row \in table : row \in link}}

\* Mutant: the recursive query without the condition on the depth counter.
recursive_query_without_depth(table, cte, depth, direction) ==
    {CteRow(direction, pair[1][source_col(direction)], pair[2][sink_col(direction)],
            pair[2].depth + 1,
            concat(concat(pair[2].path, cast_String(pair[1][source_col(direction)])), <<",">>)) :
        pair \in {joined \in table \X cte :
                    /\ joined[1][sink_col(direction)] = joined[2][source_col(direction)]
                    /\ (IF contains(joined[2].path,
                                    cast_String(joined[1][source_col(direction)]))
                        THEN 1 ELSE 0) = 0}}

\* Mutant: the recursive query without the condition on the path.
recursive_query_without_path(table, cte, depth, direction) ==
    {CteRow(direction, pair[1][source_col(direction)], pair[2][sink_col(direction)],
            pair[2].depth + 1,
            concat(concat(pair[2].path, cast_String(pair[1][source_col(direction)])), <<",">>)) :
        pair \in {joined \in table \X cte :
                    /\ joined[1][sink_col(direction)] = joined[2][source_col(direction)]
                    /\ joined[2].depth < depth}}

\* recursive_query: the rows of recursive_table joined to the rows of the CTE on
\* sink_col = the row's source_col, where the row's depth is below the block's
\* depth and its path does not contain the new key.
recursive_query(table, cte, depth, direction) ==
    {CteRow(direction, pair[1][source_col(direction)], pair[2][sink_col(direction)],
            pair[2].depth + 1,
            concat(concat(pair[2].path, cast_String(pair[1][source_col(direction)])), <<",">>)) :
        pair \in {joined \in table \X cte :
                    /\ joined[1][sink_col(direction)] = joined[2][source_col(direction)]
                    /\ joined[2].depth < depth
                    /\ (IF contains(joined[2].path,
                                    cast_String(joined[1][source_col(direction)]))
                        THEN 1 ELSE 0) = 0}}

\* The relations of at most MaxEdges rows over the keys.
RecursiveTables ==
    {table \in SUBSET [source_col : Keys, sink_col : Keys] : Cardinality(table) <= MaxEdges}

RecursionInit ==
    /\ recursive_table \in RecursiveTables
    /\ node_table \in {Keys \ {key} : key \in Keys} \cup {Keys}
    /\ distinct_parent_column_query \in SUBSET Keys
    /\ block_depth \in 0..MaxDepth
    /\ block_direction \in {"out", "in"}
    /\ recursive_cte = {}
    /\ working_table = {}
    /\ iterations = 0
    /\ cte_pc = "anchor"
    /\ AssemblerIdle
    /\ EmitterIdle

\* The anchor query is evaluated.
EvaluateAnchor ==
    /\ cte_pc = "anchor"
    /\ working_table' = anchor_query(node_table, distinct_parent_column_query, block_direction)
    /\ recursive_cte' = working_table'
    /\ cte_pc' = "recursive"
    /\ UNCHANGED <<recursive_table, node_table, distinct_parent_column_query, block_depth,
                   block_direction, iterations>>
    /\ UNCHANGED <<vars, emit_vars>>

\* The recursive query, applied to the rows of the last iteration, gives rows.
EvaluateRecursive ==
    /\ cte_pc = "recursive"
    /\ LET rows == recursive_query(recursive_table, working_table, block_depth,
                                    block_direction) IN
        /\ rows # {}
        /\ working_table' = rows
        /\ recursive_cte' = recursive_cte \cup rows
    /\ iterations' = iterations + 1
    /\ UNCHANGED <<recursive_table, node_table, distinct_parent_column_query, block_depth,
                   block_direction, cte_pc>>
    /\ UNCHANGED <<vars, emit_vars>>

\* The recursive query gives no row: the evaluation ends.
EvaluationEnds ==
    /\ cte_pc = "recursive"
    /\ recursive_query(recursive_table, working_table, block_depth, block_direction) = {}
    /\ working_table' = {}
    /\ cte_pc' = "done"
    /\ UNCHANGED <<recursive_table, node_table, distinct_parent_column_query, block_depth,
                   block_direction, recursive_cte, iterations>>
    /\ UNCHANGED <<vars, emit_vars>>

RecursionNext ==
    \/ EvaluateAnchor
    \/ EvaluateRecursive
    \/ EvaluationEnds

\* The database carries the evaluation on as long as it can.
RecursionSpec ==
    RecursionInit /\ [][RecursionNext]_<<vars, emit_vars, cte_vars>>
        /\ WF_<<vars, emit_vars, cte_vars>>(RecursionNext)


\* The keys on a path: the parts that its commas end.
RECURSIVE KeysOnPath(_)
KeysOnPath(path) ==
    IF path = << >>
    THEN << >>
    ELSE LET end == CHOOSE i \in 1..Len(path) :
                        path[i] = "," /\ \A j \in 1..(i - 1) : path[j] # "," IN
         <<SubSeq(path, 1, end - 1)>> \o KeysOnPath(SubSeq(path, end + 1, Len(path)))

\* The rows of the traversed relation that continue a row of the CTE.
ContinuationsOf(row) ==
    {edge \in recursive_table :
        edge[sink_col(block_direction)] = row[source_col(block_direction)]}

\* The traversed relation leads from a key back to itself, directly or in steps.
HasCycle(table) ==
    \E edge \in table :
        \/ edge.source_col = edge.sink_col
        \/ \E back \in table :
              back.source_col = edge.sink_col /\ back.sink_col = edge.source_col
        \/ \E second, third \in table :
              /\ Cardinality({edge.source_col, second.source_col, third.source_col}) = 3
              /\ second.source_col = edge.sink_col
              /\ third.source_col = second.sink_col
              /\ third.sink_col = edge.source_col

(* C14: for every backing relation and every depth d >= 0 of the block, the
   evaluation of the recursive CTE ends, the recursive query produces rows in
   at most d iterations, and the depth counter of every row is in 0..d. *)
C14_RecursionEndsWithinDepth ==
    /\ [](/\ iterations <= block_depth
          /\ \A row \in recursive_cte : row.depth \in 0..block_depth)
    /\ <>(cte_pc = "done")

C14_Witness ==
    /\ cte_pc = "done"
    /\ HasCycle(recursive_table)
    /\ block_depth = 1
    /\ iterations = block_depth
    /\ \E row \in recursive_cte :
          /\ row.depth = block_depth
          /\ \E edge \in ContinuationsOf(row) :
                ~contains(row.path, cast_String(edge[source_col(block_direction)]))

(* C15: in every row of the recursive CTE the keys on the path are pairwise
   different, and the key added last is the row's source key. *)
C15_NoKeyTwiceOnPath ==
    \A row \in recursive_cte :
        LET keys == KeysOnPath(row.path) IN
        /\ \A i, j \in 1..Len(keys) : i # j => keys[i] # keys[j]
        /\ keys[Len(keys)] = cast_String(row[source_col(block_direction)])
        /\ keys[1] = cast_String(row[sink_col(block_direction)])

C15_Witness ==
    /\ cte_pc = "done"
    /\ \E row \in recursive_cte :
          /\ row.depth < block_depth
          /\ Len(KeysOnPath(row.path)) = 2
          /\ \E edge \in ContinuationsOf(row) :
                cast_String(edge[source_col(block_direction)]) = KeysOnPath(row.path)[1]


\* No SQL has been generated: no node is bound to a table, no from-clause has
\* been set or extended, no base query has been built and wrapped.
NoSqlGenerated ==
    \A node \in NodesOf(sql_query_tree) :
        /\ nodes[node].table = NoTable
        /\ nodes[node].from_clause = NoTable
        /\ ctes[node] = NoStatement

(* C16: with an unsupported recursion combinator the call fails, and at the
   moment of the error no SQL has been generated. *)
C16_UnsupportedCombinatorFailsBeforeAnySql ==
    compiler_metadata.recursion_combinator = "unsupported" =>
        /\ ~Running(EmitterState) => emit_raised = "AssertionError"
        /\ emit_raised # "None" => NoSqlGenerated

\* The call is over, and one edge of the tree resolves to neither shape.
EndedWithUnsupportedEdge ==
    ~Running(EmitterState) /\ compiler_metadata.unsupported_edge # NoNode

\* The call has aborted with the fatal error and has returned no statement.
Aborted == emit_raised = "AssertionError" /\ statement = NoStatement

(* C17: for every edge of the tree, to an ordinary child or to a
   recursion child, that resolves to neither a BasicEdge nor a MultiEdge, the
   call aborts with the fatal error and returns no statement. *)
C17_UnsupportedEdgeAborts ==
    EndedWithUnsupportedEdge => Aborted

\* The positions of the trace at which an operation was carried out.
PositionsOfOp(op) == {i \in 1..Len(trace) : trace[i].op = op}

\* The recursion children of the tree, at every depth.
RecursionNodes(tree) == {node \in NodesOf(tree) : tree.block[node] = "Recurse"}

\* The root: the node without a parent.
Root(tree) == CHOOSE node \in NodesOf(tree) : tree.parent_node[node] = NoNode

(* C18: the final statement is built at most once in a call, for the root
   only, as the last operation, after the root has been collapsed and wrapped
   as a CTE and every recursion node has been emitted and joined back; it
   selects the columns of all selections the root has accumulated, distinct,
   from the root's from-clause, without a WHERE clause; and a call of
   _query_tree_to_query for another node returns the out-link column of its
   recursive clause and no statement. *)
C18_FinalStatementOnceForRoot ==
    LET root == Root(sql_query_tree)
        final == PositionsOfOp("_create_final_query") IN
    /\ Cardinality(final) <= 1
    /\ statement # NoStatement <=> final # {}
    /\ \A i \in final :
          /\ trace[i].node = root
          /\ i = Len(trace)
          /\ call_stack = << >>
          /\ \E c \in PositionsOfOp("_create_and_reference_table") : trace[c].node = root
          /\ \E w \in PositionsOfOp("_wrap_query_as_cte") : trace[w].node = root
          /\ \A recursion \in RecursionNodes(sql_query_tree) :
                /\ \E w \in PositionsOfOp("_wrap_query_as_cte") : trace[w].node = recursion
                /\ \E j \in PositionsOfOp("_join_to_recursive_node") :
                      trace[j].other = recursion
          /\ statement =
                [kind |-> "select",
                 columns |-> [k \in 1..Len(nodes[root].selections) |->
                                 Column(sql_blocks[nodes[root].selections[k]].table,
                                        nodes[root].selections[k])],
                 distinct |-> TRUE,
                 from_clause |-> nodes[root].from_clause,
                 where |-> NoWhere]
          /\ Range(nodes[root].selections)
                = {block \in SqlBlocksOf(sql_query_tree) : block.kind = "selection"}
    /\ At(EmitterState, "_traverse_recursions", "_join_to_recursive_node") =>
          LET frame == Top(EmitterState)
              recursive_node == nodes[frame.node].recursions[frame.index] IN
          /\ frame.returned.table = RecursiveQuery(recursive_node)
          /\ frame.returned \in Range(nodes[recursive_node].link_columns)
          /\ statement = NoStatement

C18_Witness ==
    /\ statement # NoStatement
    /\ Len(statement.columns) = 4
    /\ \E node \in RecursionNodes(sql_query_tree) : sql_query_tree.parent_node[node] # 1
    /\ Len(nodes[1].predicates) > 1


\* The nearest enclosing node that has a base query of its own: the node itself
\* if it is the root or a recursion child, else that of its parent.
RECURSIVE EnclosingQueryNode(_, _)
EnclosingQueryNode(tree, node) ==
    IF tree.block[node] # "Traverse"
    THEN node
    ELSE EnclosingQueryNode(tree, tree.parent_node[node])

\* The predicates of the tree.
PredicatesOf(tree) == {block \in SqlBlocksOf(tree) : block.kind = "predicate"}

\* The places a predicate is applied at: query by query, the positions of its
\* condition in the conjunction of the WHERE clause.
ApplicationsOf(predicate) ==
    {place \in NodesOf(sql_query_tree) \X (1..Cardinality(PredicatesOf(sql_query_tree))) :
        /\ ctes[place[1]] # NoStatement
        /\ ctes[place[1]].where # NoWhere
        /\ place[2] <= Len(ctes[place[1]].where.clauses)
        /\ ctes[place[1]].where.clauses[place[2]].predicate = predicate}

(* C19: a base query is built for the root and the recursion children only;
   its WHERE clause is the conjunction of exactly the predicates of the nodes
   it is the nearest enclosing such node of, each once and bound to the table
   of its own node; the final statement applies none; so that in a call that
   returns a statement every predicate of the tree is applied exactly once. *)
C19_EveryPredicateAppliedOnce ==
    /\ \A node \in NodesOf(sql_query_tree) :
          ctes[node] # NoStatement =>
              /\ sql_query_tree.block[node] # "Traverse"
              /\ ctes[node].where.kind = "and"
              /\ Len(ctes[node].where.clauses) <= Cardinality(PredicatesOf(sql_query_tree))
              /\ \A predicate \in PredicatesOf(sql_query_tree) :
                    IF EnclosingQueryNode(sql_query_tree, predicate.node) = node
                    THEN /\ Cardinality(ApplicationsOf(predicate)) = 1
                         /\ \E place \in ApplicationsOf(predicate) :
                               /\ place[1] = node
                               /\ ctes[node].where.clauses[place[2]]
                                     = [kind |-> "condition", predicate |-> predicate,
                                        table |-> Alias(predicate.node)]
                    ELSE \A place \in ApplicationsOf(predicate) : place[1] # node
    /\ statement # NoStatement =>
          /\ statement.where = NoWhere
          /\ \A predicate \in PredicatesOf(sql_query_tree) :
                Cardinality(ApplicationsOf(predicate)) = 1

C19_Witness ==
    /\ statement # NoStatement
    /\ Len(ctes[1].where.clauses) = 3
    /\ ctes[1].where.clauses[2].predicate.node = ctes[1].where.clauses[3].predicate.node
    /\ \E node \in RecursionNodes(sql_query_tree) : Len(ctes[node].where.clauses) = 1


\* `node` is an ordinary descendant of `ancestor`: ordinary children lead from
\* the one to the other.
RECURSIVE IsOrdinaryDescendant(_, _, _)
IsOrdinaryDescendant(tree, node, ancestor) ==
    /\ tree.block[node] = "Traverse"
    /\ \/ tree.parent_node[node] = ancestor
       \/ IsOrdinaryDescendant(tree, tree.parent_node[node], ancestor)

\* The pulling up and joining of the children of a node, as far as carried out.
ChildOperationsOf(node) ==
    LET OfNode(entry) == entry.node = node
                             /\ entry.op \in {"_pull_up_node_blocks", "_join_to_node"} IN
    SelectSeq(trace, OfNode)

\* The pulling up and joining of the children of a node, child by child in the
\* order of children_nodes.
ChildOperationsInOrder(node) ==
    LET children == children_nodes(sql_query_tree, node) IN
    [k \in 1..(2 * Len(children)) |->
        [op |-> IF k % 2 = 1 THEN "_pull_up_node_blocks" ELSE "_join_to_node",
         node |-> node, other |-> children[(k + 1) \div 2]]]

(* C20: when a node is bound to its table alias, each of its ordinary
   descendants has been bound to its own, has its recursion links and has
   pulled up and joined all its children; no node is bound twice; and the
   children of a node are pulled up and joined after the node is bound, one
   after the other in the order of children_nodes. *)
C20_CollapseIsPostOrder ==
    /\ \A i \in PositionsOfOp("_create_and_reference_table") :
          /\ \A j \in PositionsOfOp("_create_and_reference_table") :
                trace[j].node = trace[i].node => j = i
          /\ \A node \in NodesOf(sql_query_tree) :
                IsOrdinaryDescendant(sql_query_tree, node, trace[i].node) =>
                    /\ \E j \in 1..(i - 1) :
                          trace[j] = [op |-> "_create_and_reference_table",
                                      node |-> node, other |-> NoNode]
                    /\ \E j \in 1..(i - 1) :
                          trace[j] = [op |-> "_create_links_for_recursions",
                                      node |-> node, other |-> NoNode]
                    /\ sql_query_tree.parent_node[node] # trace[i].node =>
                          \E j \in 1..(i - 1) :
                              trace[j] = [op |-> "_join_to_node",
                                          node |-> sql_query_tree.parent_node[node],
                                          other |-> node]
    /\ \A node \in NodesOf(sql_query_tree) :
          LET done == ChildOperationsOf(node) IN
          /\ Len(done) <= 2 * Len(children_nodes(sql_query_tree, node))
          /\ done = SubSeq(ChildOperationsInOrder(node), 1, Len(done))
          /\ done # << >> =>
                \E j \in PositionsOfOp("_create_and_reference_table") :
                    /\ trace[j].node = node
                    /\ \A k \in PositionsOfOp("_pull_up_node_blocks") :
                          trace[k].node = node => j < k

C20_Witness ==
    /\ statement # NoStatement
    /\ Len(children_nodes(sql_query_tree, 1)) = 2
    /\ \E node \in NodesOf(sql_query_tree) :
          IsOrdinaryDescendant(sql_query_tree, node, 1) /\ sql_query_tree.parent_node[node] # 1


(* C21: after a call that returns a statement, every node of the tree, the
   ordinary children included, has a base query wrapped as a CTE of its own,
   and that CTE is its table. *)
C21_EveryNodeMaterializedAsCte ==
    statement # NoStatement =>
        \A node \in NodesOf(sql_query_tree) :
            ctes[node] # NoStatement /\ nodes[node].table = Cte(node)


\* The sequences of a sequence, one after the other.
RECURSIVE Flatten(_)
Flatten(seqs) ==
    IF seqs = << >> THEN << >> ELSE Head(seqs) \o Flatten(Tail(seqs))

\* The selections a node has after its collapse, by the tree alone: its own,
\* then those of each ordinary child in the order of children_nodes.
RECURSIVE CollapsedSelections(_, _)
CollapsedSelections(tree, node) ==
    LET children == children_nodes(tree, node) IN
    selections_built(node)
        \o Flatten([k \in 1..Len(children) |-> CollapsedSelections(tree, children[k])])

\* The recursion children a node has after its collapse, by the tree alone.
RECURSIVE CollapsedRecursions(_, _)
CollapsedRecursions(tree, node) ==
    LET children == children_nodes(tree, node) IN
    recursions_built(tree, node)
        \o Flatten([k \in 1..Len(children) |-> CollapsedRecursions(tree, children[k])])

\* The selections a root or recursion node has after its emission, by the tree
\* alone: those of its collapse, then those of each recursion child in the
\* order of its recursion list.
RECURSIVE EmittedSelections(_, _)
EmittedSelections(tree, node) ==
    LET the_recursions == CollapsedRecursions(tree, node) IN
    CollapsedSelections(tree, node)
        \o Flatten([k \in 1..Len(the_recursions) |->
                       EmittedSelections(tree, the_recursions[k])])

(* C22: the columns of the final statement are those of the root's own
   selections, then of each ordinary child's accumulated selections in the
   order of the children, then of the selections of each recursion child in
   the order of the accumulated recursion list, every selection of the tree
   once; and the lists of a node are at every moment a part of that order. *)
C22_SelectionsInAppendOrder ==
    /\ statement # NoStatement =>
          LET selected == [k \in 1..Len(statement.columns) |-> statement.columns[k].name] IN
          /\ selected = EmittedSelections(sql_query_tree, Root(sql_query_tree))
          /\ Len(selected) = sql_query_tree.size
          /\ Range(selected)
                = {block \in SqlBlocksOf(sql_query_tree) : block.kind = "selection"}
    /\ \A node \in NodesOf(sql_query_tree) :
          /\ ctes[node] # NoStatement =>
                \A k \in 1..Len(CollapsedSelections(sql_query_tree, node)) :
                    ctes[node].columns[k].name = CollapsedSelections(sql_query_tree, node)[k]
          /\ Len(nodes[node].recursions) <= Len(CollapsedRecursions(sql_query_tree, node))
          /\ nodes[node].recursions
                = SubSeq(CollapsedRecursions(sql_query_tree, node), 1,
                         Len(nodes[node].recursions))

C22_Witness ==
    /\ statement # NoStatement
    /\ [k \in 1..Len(statement.columns) |-> statement.columns[k].name.node] = <<1, 2, 4, 3>>


(* C23: a second call of emit_code_from_ir with the same query tree and the
   same provider returns the statement the first call has returned. *)
C23_SameTreeTwiceSameStatement ==
    statement # NoStatement =>
        emit_code_from_ir_again(EmitterState).statement = statement

(* C23, amended: two calls on equal trees as the tree builder makes them carry
   out the same operations and build the same base queries and the same
   statement; a second call on the tree object the first call has used does
   not, unless the tree is a single node: the lists of the nodes are extended
   once more and the statement selects more columns than the first. *)
C23_FreshTreesSameStatement ==
    statement # NoStatement =>
        LET fresh == emit_code_from_ir(sql_query_tree, compiler_metadata)
            again == emit_code_from_ir_again(EmitterState) IN
        /\ fresh.statement = statement
        /\ fresh.ctes = ctes
        /\ fresh.trace = trace
        /\ IF sql_query_tree.size = 1
           THEN again.statement = statement
           ELSE /\ again.statement # statement
                /\ again.statement # NoStatement =>
                      Len(again.statement.columns) > Len(statement.columns)

C23_Witness ==
    /\ statement # NoStatement
    /\ sql_query_tree.size = 2
    /\ sql_query_tree.block[2] = "Traverse"
    /\ LET again == emit_code_from_ir_again(EmitterState) IN
       [k \in 1..Len(again.statement.columns) |-> again.statement.columns[k].name.node]
           = <<1, 2, 2>>

---------------------------------------------------------------------------
\* The location named by the last MarkLocation or Backtrack among `between`.
LastLinkedLocationSource(between) ==
    LET sources == SelectSeq(between, LAMBDA b : b.type \in linked_location_source_types) IN
    IF sources = << >> THEN None ELSE sources[Len(sources)].location

\* Every step's linked_location in a returned query: None for the first, and for
\* a later one the location of the last MarkLocation or Backtrack between the
\* previous opening block and its own.
LinkedToLastSourceBeforeOpening ==
    Returned =>
        LET main == MainSection(remaining_ir_blocks) IN
        /\ result.steps[1].linked_location = None
        /\ \A i \in 2..Len(result.steps) :
              result.steps[i].linked_location
                  = LastLinkedLocationSource(BlocksBefore(main, i))

\* The loop has read a block of one of `types` and goes on.
ReadsBlockOf(types) ==
    /\ pc = "loop"
    /\ pc' # "raised"
    /\ Len(remaining_ir_blocks') = Len(remaining_ir_blocks) + 1
    /\ remaining_ir_blocks'[Len(remaining_ir_blocks')].type \in types

(* C24, as claimed: the linked_location of a step opened by Traverse or
   Recurse is the location named by the last MarkLocation or Backtrack block
   after the previous opening block and before this one (a Backtrack after
   the previous step's MarkLocation overrides it); the pending location is
   reset at every opening block (QueryRoot, Traverse, Recurse); and the first
   step's linked_location is always None. *)
C24_PendingLocationResetAtEveryOpeningBlock ==
    /\ [](LinkedToLastSourceBeforeOpening)
    /\ [][ReadsBlockOf(opening_block_types) => next_linked_location' = None]_vars

(* C24, amended: the same, with the pending location reset at every Traverse
   and Recurse block, which hands it to the step it opens; a QueryRoot leaves
   the pending location as it is. *)
C24_LinkedToLastSourceBeforeOpening ==
    /\ [](LinkedToLastSourceBeforeOpening)
    /\ [][/\ ReadsBlockOf(step_block_types)
             => /\ next_linked_location' = None
                /\ linked_location' = next_linked_location
          /\ ReadsBlockOf({"QueryRoot"})
             => /\ next_linked_location' = next_linked_location
                /\ linked_location' = None
         ]_vars

C24_Witness ==
    /\ Returned
    /\ Len(result.steps) = 2
    /\ LET between == BlocksBefore(MainSection(remaining_ir_blocks), 2) IN
        /\ BlockTypes(between) = <<"MarkLocation", "Backtrack">>
        /\ between[1].location # between[2].location
        /\ result.steps[2].linked_location = between[2].location

---------------------------------------------------------------------------
\* The blocks that enter an open step buffer, and the blocks that close it.
StepBufferBlocks == {b \in Blocks : b.type \in {"CoerceType", "Filter", "MarkLocation"}}
ClosingBlocks == {b \in Blocks : b.type \in step_block_types \cup {"GlobalOperationsStart"}}

\* The streams in which a step buffer is opened, filled with `more` and closed:
\* the root step's, and that of a step after the smallest root step.
ClosedBufferStreams ==
    {<<QueryRoot(RootClass)>> \o more \o <<closing>> :
        more \in SeqsUpTo(StepBufferBlocks, MaxStepBlocks - 1), closing \in ClosingBlocks}
    \cup {<<QueryRoot(RootClass), MarkLocation("L1"), opening>> \o more \o <<closing>> :
        opening \in {Traverse, Recurse},
        more \in SeqsUpTo(StepBufferBlocks, MaxStepBlocks - 1), closing \in ClosingBlocks}

\* The loop's state before the last block of `stream` is read, and after.
BeforeLastOf(stream) == run_loop(InitialLoopState, SubSeq(stream, 1, Len(stream) - 1), 0)
AfterLastOf(stream) == run_loop(InitialLoopState, stream, 0)

\* Streams with the step buffers the claim names, each closed by the block after it.
C25_Examples ==
    {\* a Traverse step without a CoerceType
     <<QueryRoot(RootClass), MarkLocation("L1"), Traverse, MarkLocation("L2"),
       GlobalOperationsStart>>,
     \* a step without a MarkLocation
     <<QueryRoot(RootClass), Filter(StepPredicate), GlobalOperationsStart>>,
     <<QueryRoot(RootClass), MarkLocation("L1"), Recurse, CoerceType(TargetClass), Traverse>>,
     \* a step with two MarkLocations
     <<QueryRoot(RootClass), MarkLocation("L1"), MarkLocation("L2"), Traverse>>,
     \* a step with two Filters
     <<QueryRoot(RootClass), Filter(StepPredicate), Filter(StepPredicate),
       MarkLocation("L1"), GlobalOperationsStart>>,
     <<QueryRoot(RootClass), MarkLocation("L1"), Traverse, CoerceType(TargetClass),
       Filter(StepPredicate), Filter(StepPredicate), MarkLocation("L2"), Recurse>>,
     \* a Filter before the CoerceType
     <<QueryRoot(RootClass), MarkLocation("L1"), Traverse, Filter(StepPredicate),
       CoerceType(TargetClass), MarkLocation("L2"), GlobalOperationsStart>>,
     \* a CoerceType in the QueryRoot step
     <<QueryRoot(RootClass), CoerceType(TargetClass), MarkLocation("L1"), Traverse>>}

(* C25: a step buffer whose block-type sequence is not one of the four
   permitted shapes is rejected with an error when it is closed, at the next
   Traverse or Recurse or at GlobalOperationsStart, and yields no step: every
   buffer the loop builds from a newly opened one, and in particular a
   Traverse/Recurse step without a CoerceType, a step without a MarkLocation,
   a step with two MarkLocations or two Filters, a Filter before the
   CoerceType, and a CoerceType in the QueryRoot step. *)
C25_UnpermittedShapeRejectedAtClosing ==
    /\ pc = "loop" /\ current_step_blocks # NoBlocks
       /\ BlockTypes(current_step_blocks) \notin StepShapes
          => \A closing \in ClosingBlocks :
                LET closed == loop_body(LoopState, closing, current_block_index) IN
                /\ closed.pc = "raised"
                /\ closed.raised = "AssertionError"
                /\ closed.steps = steps
    /\ remaining_ir_blocks = << >>
          => /\ \A stream \in ClosedBufferStreams :
                   LET built == BeforeLastOf(stream)
                       closed == AfterLastOf(stream) IN
                   /\ built.pc = "loop"
                   /\ BlockTypes(built.current_step_blocks) \notin StepShapes
                         => /\ closed.pc = "raised"
                            /\ closed.raised = "AssertionError"
                            /\ closed.steps = built.steps
             /\ \A stream \in C25_Examples :
                   /\ BeforeLastOf(stream).pc = "loop"
                   /\ BlockTypes(BeforeLastOf(stream).current_step_blocks) \notin StepShapes
                   /\ AfterLastOf(stream).raised = "AssertionError"
                   /\ convert_to_cypher_query(folds, stream).raised = "AssertionError"

C25_Witness ==
    /\ pc = "raised"
    /\ raised = "AssertionError"
    /\ Len(steps) = 1
    /\ BlockTypes(current_step_blocks) = <<"Traverse", "MarkLocation">>
    /\ remaining_ir_blocks[Len(remaining_ir_blocks)] = GlobalOperationsStart

---------------------------------------------------------------------------
\* The row the recursive query makes of a row of the last iteration and a row of
\* the traversed relation that continues it.
ExtensionOf(row, edge) ==
    CteRow(block_direction, edge[source_col(block_direction)],
           row[sink_col(block_direction)], row.depth + 1,
           concat(concat(row.path, cast_String(edge[source_col(block_direction)])), <<",">>))

(* C26: the recursive step extends a row of the previous iteration with a
   neighbouring key exactly when the row's depth is below the block's depth
   and the key is not one of the keys on the row's path; the cycle guard never
   excludes a key that is absent from the path, such as a key whose digits
   are part of a different key on the path. *)
C26_ExtendedExactlyWhenKeyNotOnPath ==
    cte_pc = "recursive" =>
        LET rows == recursive_query(recursive_table, working_table, block_depth,
                                    block_direction) IN
        \A row \in working_table :
            \A edge \in ContinuationsOf(row) :
                ExtensionOf(row, edge) \in rows
                    <=> /\ row.depth < block_depth
                        /\ cast_String(edge[source_col(block_direction)])
                              \notin Range(KeysOnPath(row.path))

---------------------------------------------------------------------------
(* C27: in every row of the recursive CTE the depth counter is the number of
   keys on the row's path minus one: the anchor rows have depth 0 and a path
   that holds their own key only, and every application of the recursive
   query adds exactly 1 to the depth and exactly one key to the path of the
   row it extends. *)
C27_DepthCountsKeysOnPath ==
    /\ \A row \in recursive_cte :
          /\ row.depth = Len(KeysOnPath(row.path)) - 1
          /\ row.depth = 0
                => /\ row.path = concat(cast_String(row[sink_col(block_direction)]), <<",">>)
                   /\ row[source_col(block_direction)] = row[sink_col(block_direction)]
          /\ row.depth > 0
                => \E previous \in recursive_cte :
                      /\ row.depth = previous.depth + 1
                      /\ row.path
                            = concat(concat(previous.path,
                                            cast_String(row[source_col(block_direction)])),
                                     <<",">>)
                      /\ KeysOnPath(row.path)
                            = Append(KeysOnPath(previous.path),
                                     cast_String(row[source_col(block_direction)]))
    /\ cte_pc = "recursive" => \A row \in working_table : row.depth = iterations

C27_Witness ==
    /\ cte_pc = "done"
    /\ iterations = 2
    /\ \E row \in recursive_cte :
          /\ row.depth = 2
          /\ Len(KeysOnPath(row.path)) = 3
          /\ KeysOnPath(row.path)[3] = cast_String(11)

---------------------------------------------------------------------------
\* `node` is `ancestor` or lies below it in the tree.
RECURSIVE IsWithin(_, _, _)
IsWithin(tree, node, ancestor) ==
    \/ node = ancestor
    \/ node # NoNode /\ tree.parent_node[node] # NoNode
          /\ IsWithin(tree, tree.parent_node[node], ancestor)

\* The column _create_link_for_recursion records for a recursion: a column of the
\* table its parent was bound to, named by the edge that leads to the recursion.
IsLinkRecordedFor(column, tree, recursion) ==
    /\ column.table = Alias(tree.parent_node[recursion])
    /\ column.name.edge = recursion
    /\ column.name.col \in {"source_col", "junction_edge.source_col"}

(* C28: for every recursion child that _traverse_recursions processes, the
   incoming link column was recorded during collapse before it is looked up
   in the owning node's recursion_to_column, so that the lookup never misses,
   also for a recursion pulled up from a descendant; the recursion child is
   emitted only after the owning node has been wrapped as a CTE; and it is
   joined back to the owning node only after its own emission has finished. *)
C28_RecursionLinkedThenEmittedThenJoined ==
    /\ emit_raised # "KeyError"
    /\ CanTraverseRecursion(EmitterState) =>
          LET frame == Top(EmitterState)
              recursive_node == nodes[frame.node].recursions[frame.index]
              recursion_to_column == nodes[frame.node].recursion_to_column IN
          /\ NodeKey(recursive_node) \in DOMAIN recursion_to_column
          /\ IsLinkRecordedFor(recursion_to_column[NodeKey(recursive_node)],
                               sql_query_tree, recursive_node)
          /\ frame.node
                = EnclosingQueryNode(sql_query_tree, sql_query_tree.parent_node[recursive_node])
    /\ \A i \in PositionsOfOp("_query_tree_to_query") :
          LET recursive_node == trace[i].node
              owner == trace[i].other IN
          /\ \E l \in PositionsOfOp("_create_links_for_recursions") :
                l < i /\ trace[l].node = sql_query_tree.parent_node[recursive_node]
          /\ sql_query_tree.parent_node[recursive_node] # owner
                => \E p \in PositionsOfOp("_pull_up_node_blocks") :
                      /\ p < i
                      /\ trace[p].node = owner
                      /\ IsWithin(sql_query_tree, sql_query_tree.parent_node[recursive_node],
                                  trace[p].other)
          /\ \E w \in PositionsOfOp("_wrap_query_as_cte") : w < i /\ trace[w].node = owner
          /\ \A k \in 1..Len(trace) :
                IsWithin(sql_query_tree, trace[k].node, recursive_node) => k >= i
    /\ \A j \in PositionsOfOp("_join_to_recursive_node") :
          LET owner == trace[j].node
              recursive_node == trace[j].other IN
          /\ \E i \in PositionsOfOp("_query_tree_to_query") :
                /\ i < j
                /\ trace[i].node = recursive_node
                /\ trace[i].other = owner
                /\ \E w \in PositionsOfOp("_wrap_query_as_cte") :
                      i < w /\ w < j /\ trace[w].node = recursive_node
          /\ \A k \in 1..Len(trace) :
                IsWithin(sql_query_tree, trace[k].node, recursive_node) => k < j
          /\ \A inner \in RecursionNodes(sql_query_tree) :
                inner # recursive_node /\ IsWithin(sql_query_tree, inner, recursive_node)
                    => \E k \in PositionsOfOp("_join_to_recursive_node") :
                          k < j /\ trace[k].other = inner

C28_Witness ==
    /\ statement # NoStatement
    /\ \E j, k \in PositionsOfOp("_join_to_recursive_node") :
          /\ trace[j].node = 1
          /\ sql_query_tree.parent_node[trace[j].other] # 1
          /\ trace[k].node = trace[j].other

---------------------------------------------------------------------------
(* C29: whenever the provider supplies an unsupported recursion combinator,
   emit_code_from_ir fails and returns no statement, for every query tree,
   those without a Recurse node included. *)
C29_UnsupportedCombinatorFailsForEveryTree ==
    compiler_metadata.recursion_combinator = "unsupported" /\ ~Running(EmitterState)
        => emit_raised # "None" /\ statement = NoStatement

---------------------------------------------------------------------------
\* The positions of the trace at which `recursion` was passed to
\* _query_tree_to_query, given its recursive clause, and joined back.
EmissionsOf(recursion) ==
    {i \in PositionsOfOp("_query_tree_to_query") : trace[i].node = recursion}

ClausesOf(recursion) ==
    {i \in PositionsOfOp("_create_recursive_clause") : trace[i].node = recursion}

JoinsBackOf(recursion) ==
    {i \in PositionsOfOp("_join_to_recursive_node") : trace[i].other = recursion}

\* The nearest ancestor of a recursion node that is the root or a recursion node.
OwnerOf(tree, recursion) == EnclosingQueryNode(tree, tree.parent_node[recursion])

(* C30: within one call every recursion node of the tree is emitted (passed
   to _query_tree_to_query, given a recursive clause, joined back) exactly
   once, and by its nearest ancestor that is the root or a recursion node,
   also when it was pulled up through several levels of ordinary children
   whose own recursions lists still contain it: never twice at any moment,
   and once each when the call has returned its statement. *)
C30_EveryRecursionEmittedOnceByItsOwner ==
    /\ \A recursion \in RecursionNodes(sql_query_tree) :
          /\ Cardinality(EmissionsOf(recursion)) <= 1
          /\ Cardinality(ClausesOf(recursion)) <= 1
          /\ Cardinality(JoinsBackOf(recursion)) <= 1
          /\ \A i \in EmissionsOf(recursion) :
                trace[i].other = OwnerOf(sql_query_tree, recursion)
          /\ \A j \in JoinsBackOf(recursion) :
                trace[j].node = OwnerOf(sql_query_tree, recursion)
          /\ statement # NoStatement
                => /\ Cardinality(EmissionsOf(recursion)) = 1
                   /\ Cardinality(ClausesOf(recursion)) = 1
                   /\ Cardinality(JoinsBackOf(recursion)) = 1
    /\ \A i \in PositionsOfOp("_query_tree_to_query") :
          sql_query_tree.block[trace[i].node] = "Recurse"
    /\ \A k \in 1..Len(call_stack) :
          call_stack[k].fn \in {"_query_tree_to_query", "_traverse_recursions"}
              => sql_query_tree.block[call_stack[k].node] # "Traverse"

C30_Witness ==
    /\ statement # NoStatement
    /\ sql_query_tree.block = <<"QueryRoot", "Traverse", "Traverse", "Recurse">>
    /\ sql_query_tree.parent_node = <<0, 1, 2, 3>>
    /\ \A node \in 1..3 : 4 \in Range(nodes[node].recursions)
    /\ \E j \in JoinsBackOf(4) : trace[j].node = 1

---------------------------------------------------------------------------
\* The joins composed for one ordinary child, in every from-clause built so far.
JoinsToChild(child) ==
    {join \in ChildJoinsOf(EmitterState) : join.onclause.child = child}

(* C31: for each ordinary child, collapse adds exactly one join between the
   parent's from-clause and the child's from-clause, whatever number of
   (table, condition) pairs the provider returns for the child: none, one, or
   two for a junction-table edge. *)
C31_ExactlyOneJoinPerOrdinaryChild ==
    \A j \in PositionsOfOp("_join_to_node") :
        j < Len(trace) \/ emit_raised = "None"
            => Cardinality(JoinsToChild(trace[j].other)) = 1

---------------------------------------------------------------------------
\* The nodes that have been wrapped as a CTE.
WrappedNodes == {node \in NodesOf(sql_query_tree) : ctes[node] # NoStatement}

\* The column recorded in `node` as the incoming link of `recursion`.
LinkColumnOf(node, recursion) == nodes[node].recursion_to_column[NodeKey(recursion)]

(* C32: when a node is wrapped as a CTE, and from then on, the incoming link
   column recorded for every recursion child in its recursions list, its own
   and those pulled up from ordinary descendants, is among the columns its
   base query selects; so the join of each recursion child finds a column of
   that name on the node's CTE and joins on it. *)
C32_LinkColumnsSelectedByBaseQuery ==
    /\ \A node \in WrappedNodes :
          \A k \in 1..Len(nodes[node].recursions) :
              LET recursion == nodes[node].recursions[k] IN
              /\ NodeKey(recursion) \in DOMAIN nodes[node].recursion_to_column
              /\ LinkColumnOf(node, recursion) \in Range(ctes[node].columns)
              /\ LinkColumnOf(node, recursion) \in Range(nodes[node].link_columns)
    /\ \A j \in PositionsOfOp("_join_to_recursive_node") :
          LET node == trace[j].node
              recursion == trace[j].other IN
          /\ node \in WrappedNodes
          /\ \E column \in Range(ctes[node].columns) :
                column.name = LinkColumnOf(node, recursion).name
          /\ \E join \in JoinsOf(nodes[node].from_clause) :
                /\ join.onclause.kind = "equals"
                /\ join.onclause.left
                      = Column(Cte(node), LinkColumnOf(node, recursion).name)
                /\ join.right = nodes[recursion].from_clause

C32_Witness ==
    /\ statement # NoStatement
    /\ \E own, pulled \in Range(nodes[1].recursions) :
          /\ sql_query_tree.parent_node[own] = 1
          /\ sql_query_tree.parent_node[pulled] # 1
          /\ {LinkColumnOf(1, own), LinkColumnOf(1, pulled)} \subseteq Range(ctes[1].columns)
          /\ \E j \in PositionsOfOp("_join_to_recursive_node") :
                trace[j].node = 1 /\ trace[j].other = pulled

---------------------------------------------------------------------------
\* The selections of the tree.
SelectionsOf(tree) == {block \in SqlBlocksOf(tree) : block.kind = "selection"}

(* C33: during one call every selection of the tree is rebound to a CTE and
   renamed exactly once, at the CTE wrap of its nearest enclosing root or
   recursion node: before that wrap it is bound to no table or to the alias of
   its own node and has not been renamed, from that wrap on it is bound to
   that node's CTE and has been renamed once; so at final assembly every
   selection, and every column of the statement, references the CTE of the
   root or of a recursion node, none a raw aliased table, and none has been
   renamed twice. *)
C33_SelectionsRenamedOnceAtEnclosingWrap ==
    /\ \A selection \in SelectionsOf(sql_query_tree) :
          LET enclosing == EnclosingQueryNode(sql_query_tree, selection.node)
              block == sql_blocks[selection] IN
          /\ block.renames <= 1
          /\ block.renames = 1 <=> ctes[enclosing] # NoStatement
          /\ block.renames = 1 => block.table = Cte(enclosing)
          /\ block.renames = 0 => block.table \in {NoTable, Alias(selection.node)}
          /\ statement # NoStatement
                => /\ block.renames = 1
                   /\ block.table = Cte(enclosing)
                   /\ Cardinality({k \in 1..Len(statement.columns) :
                                      statement.columns[k].name = selection}) = 1
    /\ statement # NoStatement
          => \A k \in 1..Len(statement.columns) :
                /\ statement.columns[k].table.kind = "cte"
                /\ sql_query_tree.block[statement.columns[k].table.node] # "Traverse"
                /\ statement.columns[k].table
                      = Cte(EnclosingQueryNode(sql_query_tree, statement.columns[k].name.node))

C33_Witness ==
    /\ statement # NoStatement
    /\ sql_query_tree.block = <<"QueryRoot", "Traverse", "Recurse", "Traverse">>
    /\ sql_query_tree.parent_node = <<0, 1, 1, 3>>
    /\ sql_blocks[Selection(2, 1)] = [table |-> Cte(1), renames |-> 1]
    /\ sql_blocks[Selection(4, 1)] = [table |-> Cte(3), renames |-> 1]

=============================================================================
